---- MODULE Spec2Model ----
(***************************************************************************)
(* Model of nutils/sample.py: the Sample variants (_DefaultIndex,          *)
(* _CustomIndex, _Empty, _Add, _Mul, _Zip, _TakeElements), their index     *)
(* maps and the combinators add, multiply, zip, subset and take_elements.  *)
(*                                                                         *)
(* A Sample is an immutable value (types.Singleton): it is modelled as a   *)
(* record that holds the fields its constructor assigns.  Element and      *)
(* point indices are the 0-based numbers of the source; a numpy array a is *)
(* a sequence whose entry a[i] is written a[i+1].  A call returns a record *)
(* [err, val]: err is "none" and val the returned value, or err names the  *)
(* raised exception.                                                       *)
(***************************************************************************)
EXTENDS Integers, Sequences, FiniteSets, TLC

\* The state: the sample at hand and the last call with its outcome; the
\* sample objects that exist, each with the value its cached property holds,
\* and the threads that read a cached property.
VARIABLES x, last, objs, threads

vars == <<x, last, objs, threads>>

\* Bounds of the model.
MaxElems == 2      \* elements of a newly built leaf
MaxPts == 2        \* points of one element of a newly built leaf
MaxNPoints == 4    \* points of a sample kept in the state
MaxSize == 3       \* constructor nodes of a sample kept in the state
MaxOperand == 1    \* constructor nodes of an operand of add, multiply, zip
MaxTake == 2       \* length of an index list handed to take_elements
MaxRank == 3       \* rank of an integrand
MaxAxis == 2       \* length of an axis of an integrand
MaxEntries == 2    \* entries of the sparse data of an integrand
MaxObjs == 3       \* sample objects alive together
MaxThreads == 2    \* threads that read a cached property
MaxPointAxes == 2  \* point axes of the arguments a basis is lowered with

Spaces == {"X", "Y"}

\* transforms[0].fromdims of the transform chains of a space.
fromdims(space) == IF space = "X" THEN 1 ELSE 2

Ok(v) == [err |-> "none", val |-> v]
Raise(e) == [err |-> e, val |-> <<>>]

RECURSIVE getindex(_, _)
RECURSIVE get_element_tri(_, _)
RECURSIVE tri(_)
RECURSIVE get_lower_args(_, _)
RECURSIVE get_evaluable_indices(_, _)
RECURSIVE PointAxes(_)
RECURSIVE Ravel(_, _)
RECURSIVE Lowers(_)
RECURSIVE LeavesOf(_)
RECURSIVE SortedIndices(_)
RECURSIVE SampleCall(_, _, _)
RECURSIVE lower(_, _)
RECURSIVE integral(_, _)
RECURSIVE weight_value(_)
RECURSIVE SetSum(_)
RECURSIVE ElementPoints(_, _)
RECURSIVE basis(_, _)
RECURSIVE get_evaluable_weights(_, _)
RECURSIVE take_elements(_, _, _)
RECURSIVE subset(_, _)
RECURSIVE SumSeq(_)
RECURSIVE Prod(_)
RECURSIVE SortedSeq(_)
RECURSIVE Size(_)
RECURSIVE HasCustomIndex(_)

----------------------------------------------------------------------------
\* Python and numpy primitives.

SumSeq(s) == IF s = <<>> THEN 0 ELSE s[1] + SumSeq(Tail(s))

Prod(s) == IF s = <<>> THEN 1 ELSE s[1] * Prod(Tail(s))

\* numpy.arange(a, b)
arange(a, b) == IF b > a THEN [i \in 1..(b - a) |-> a + i - 1] ELSE <<>>

\* numpy.cumsum([0] + sizes)
cumsum0(sizes) == [i \in 1..(Len(sizes) + 1) |-> SumSeq(SubSeq(sizes, 1, i - 1))]

\* a[start:stop] of Python and numpy: negative bounds count from the end,
\* bounds are clipped to the length, an empty range gives an empty result.
PySlice(a, start, stop) ==
    LET n == Len(a)
        clip(i) == IF i < 0 THEN (IF i + n < 0 THEN 0 ELSE i + n)
                   ELSE (IF i > n THEN n ELSE i)
    IN SubSeq(a, clip(start) + 1, clip(stop))

\* numpy.take(a, ind) with the default mode 'raise': an index in [-n, n) is
\* accepted (negative ones count from the end), any other raises IndexError.
numpy_take(a, ind) ==
    LET n == Len(a)
    IN IF \E k \in 1..Len(ind) : ind[k] < -n \/ ind[k] >= n
       THEN Raise("IndexError")
       ELSE Ok([k \in 1..Len(ind) |-> IF ind[k] < 0 THEN a[ind[k] + n + 1] ELSE a[ind[k] + 1]])

\* The elements of a finite set of integers in increasing order.
SortedSeq(S) ==
    IF S = {} THEN <<>>
    ELSE LET m == CHOOSE v \in S : \A w \in S : v <= w
         IN <<m>> \o SortedSeq(S \ {m})

\* The entries of seq s at the positions in keep, in order.
Select(s, keep) ==
    LET F[i \in 0..Len(s)] ==
            IF i = 0 THEN <<>>
            ELSE IF i \in keep THEN Append(F[i - 1], s[i]) ELSE F[i - 1]
    IN F[Len(s)]

----------------------------------------------------------------------------
\* Constructors: the fields Sample.__init__ and the subclass assign.

_DefaultIndex(space, transforms, points) ==
    [tag |-> "DefaultIndex", spaces |-> <<space>>, ndims |-> fromdims(space),
     nelems |-> Len(points),
     npoints |-> SumSeq([i \in 1..Len(points) |-> points[i].npoints]),
     space |-> space, transforms |-> transforms, points |-> points]

_CustomIndex(parent, index) ==
    [tag |-> "CustomIndex", spaces |-> <<parent.space>>, ndims |-> fromdims(parent.space),
     nelems |-> Len(parent.points), npoints |-> parent.npoints,
     space |-> parent.space, transforms |-> parent.transforms, points |-> parent.points,
     parent |-> parent, index |-> index]

_Empty(spaces, ndims) ==
    [tag |-> "Empty", spaces |-> spaces, ndims |-> ndims, nelems |-> 0, npoints |-> 0]

_Add(sample1, sample2) ==
    [tag |-> "Add", spaces |-> sample1.spaces, ndims |-> sample1.ndims,
     nelems |-> sample1.nelems + sample2.nelems,
     npoints |-> sample1.npoints + sample2.npoints,
     sample1 |-> sample1, sample2 |-> sample2]

_Mul(sample1, sample2) ==
    [tag |-> "Mul", spaces |-> sample1.spaces \o sample2.spaces,
     ndims |-> sample1.ndims + sample2.ndims,
     nelems |-> sample1.nelems * sample2.nelems,
     npoints |-> sample1.npoints * sample2.npoints,
     sample1 |-> sample1, sample2 |-> sample2]

\* Sample.empty
Sample_empty(spaces, ndims) == _Empty(spaces, ndims)

\* The offsets without the leading 0: the cumulative sum of the point counts.
offsets_from_first(s) == Tail(cumsum0([i \in 1..Len(s.points) |-> s.points[i].npoints]))

\* _DefaultIndex.offsets
offsets(s) == cumsum0([i \in 1..Len(s.points) |-> s.points[i].npoints])

----------------------------------------------------------------------------
\* getindex, one operator per variant.

DefaultIndex_getindex(s, ielem) ==
    IF ~(0 <= ielem /\ ielem < s.nelems) THEN Raise("IndexError")
    ELSE Ok(arange(offsets(s)[ielem + 1], offsets(s)[ielem + 2]))

CustomIndex_getindex(s, ielem) ==
    LET p == getindex(s.parent, ielem)
    IN IF p.err # "none" THEN p ELSE numpy_take(s.index, p.val)

Empty_getindex(s, ielem) == Raise("IndexError")

\* Add_getindex without the shift of the second part by sample1.npoints.
Add_getindex_unshifted(s, ielem) ==
    IF ielem < s.sample1.nelems THEN getindex(s.sample1, ielem)
    ELSE getindex(s.sample2, ielem - s.sample1.nelems)

Add_getindex(s, ielem) ==
    IF ielem < s.sample1.nelems THEN getindex(s.sample1, ielem)
    ELSE LET r == getindex(s.sample2, ielem - s.sample1.nelems)
         IN IF r.err # "none" THEN r
            ELSE Ok([k \in 1..Len(r.val) |-> r.val[k] + s.sample1.npoints])

\* Mul_getindex with the first factor's point count as the stride.
Mul_getindex_stride1(s, ielem) ==
    IF s.sample2.nelems = 0 THEN Raise("ZeroDivisionError")
    ELSE LET index1 == getindex(s.sample1, ielem \div s.sample2.nelems)
             index2 == getindex(s.sample2, ielem % s.sample2.nelems)
         IN IF index1.err # "none" THEN index1
            ELSE IF index2.err # "none" THEN index2
            ELSE Ok([k \in 1..(Len(index1.val) * Len(index2.val)) |->
                       index1.val[((k - 1) \div Len(index2.val)) + 1] * s.sample1.npoints
                       + index2.val[((k - 1) % Len(index2.val)) + 1]])

\* divmod(ielem, nelems2) is Python's floor division; it raises
\* ZeroDivisionError when the second factor has no elements.
Mul_getindex(s, ielem) ==
    IF s.sample2.nelems = 0 THEN Raise("ZeroDivisionError")
    ELSE LET ielem1 == ielem \div s.sample2.nelems
             ielem2 == ielem % s.sample2.nelems
             index1 == getindex(s.sample1, ielem1)
             index2 == getindex(s.sample2, ielem2)
         IN IF index1.err # "none" THEN index1
            ELSE IF index2.err # "none" THEN index2
            ELSE LET n1 == Len(index1.val)
                     n2 == Len(index2.val)
                 IN Ok([k \in 1..(n1 * n2) |->
                          index1.val[((k - 1) \div n2) + 1] * s.sample2.npoints
                          + index2.val[((k - 1) % n2) + 1]])

\* _Zip.getindex returning the offsets' range itself, not the entries of
\* self._indices in that range.
Zip_getindex_contiguous(s, ielem) ==
    LET o == PySlice(s.offsets, ielem, ielem + 2)
    IN IF Len(o) = 0 THEN Raise("TypeError")
       ELSE IF Len(o) = 1 THEN Ok(arange(0, o[1]))
       ELSE Ok(arange(o[1], o[2]))

\* self._indices[slice(*self._offsets[ielem:ielem+2])]: no range check.  The
\* inner slice has 2, 1 or 0 entries; slice() of no argument is a TypeError,
\* slice(stop) selects indices[:stop].
Zip_getindex(s, ielem) ==
    LET o == PySlice(s.offsets, ielem, ielem + 2)
    IN IF Len(o) = 0 THEN Raise("TypeError")
       ELSE IF Len(o) = 1 THEN Ok(PySlice(s.indices, 0, o[1]))
       ELSE Ok(PySlice(s.indices, o[1], o[2]))

\* _TakeElements.getindex numbering the points of every element from 0.
TakeElements_getindex_local(s, ielem) ==
    IF ~(0 <= ielem /\ ielem < s.nelems) THEN Raise("IndexError")
    ELSE Ok(arange(0, s.offsets[ielem + 2] - s.offsets[ielem + 1]))

TakeElements_getindex(s, ielem) ==
    IF ~(0 <= ielem /\ ielem < s.nelems) THEN Raise("IndexError")
    ELSE Ok(arange(s.offsets[ielem + 1], s.offsets[ielem + 2]))

\* Sample.getindex: dispatch on the variant.
getindex(s, ielem) ==
    CASE s.tag = "DefaultIndex" -> DefaultIndex_getindex(s, ielem)
      [] s.tag = "CustomIndex" -> CustomIndex_getindex(s, ielem)
      [] s.tag = "Empty" -> Empty_getindex(s, ielem)
      [] s.tag = "Add" -> Add_getindex(s, ielem)
      [] s.tag = "Mul" -> Mul_getindex(s, ielem)
      [] s.tag = "Zip" -> Zip_getindex(s, ielem)
      [] s.tag = "TakeElements" -> TakeElements_getindex(s, ielem)


----------------------------------------------------------------------------
\* _TakeElements.__init__: _offsets is read by the constructor, so a getindex
\* of the parent that raises makes the construction raise.
_TakeElements(parent, indices) ==
    LET idx == [k \in 1..Len(indices) |-> getindex(parent, indices[k])]
        bad == {k \in 1..Len(indices) : idx[k].err # "none"}
    IN IF bad # {} THEN Raise(idx[CHOOSE k \in bad : \A j \in bad : k <= j].err)
       ELSE LET off == cumsum0([k \in 1..Len(indices) |-> Len(idx[k].val)])
            IN Ok([tag |-> "TakeElements", spaces |-> parent.spaces, ndims |-> parent.ndims,
                   nelems |-> Len(indices), npoints |-> off[Len(off)],
                   parent |-> parent, indices |-> indices, offsets |-> off])

\* The local offsets left in the order of the constituent's points.
take_ilocal_unsorted(ilocal, indices) == ilocal

\* numpy.take(ilocal, self._indices, axis=0): the local offsets in the order
\* of the zipped sample's points.
take_ilocal(ilocal, indices) == [k \in 1..Len(indices) |-> ilocal[indices[k] + 1]]

\* The arrays and fields _Zip.__init__ computes once its tests have passed.
Zip_arrays(samples) ==
    LET npoints == samples[1].npoints
        n == Len(samples)
        spaces == LET F[i \in 0..n] == IF i = 0 THEN <<>> ELSE F[i - 1] \o samples[i].spaces
                  IN F[n]
        nelems == [i \in 1..n |-> samples[i].nelems]
        \* the element of sample i that owns point p and the position of p in
        \* it (the loop's last assignment; an entry no element assigns is
        \* left as numpy.empty made it, which no partition produces: 0 here)
        owners(i, p) == {e \in 0..(nelems[i] - 1) :
                            \E k \in 1..Len(getindex(samples[i], e).val) :
                                getindex(samples[i], e).val[k] = p}
        ielems == [i \in 1..n |-> [q \in 1..npoints |->
                     IF owners(i, q - 1) = {} THEN 0
                     ELSE CHOOSE e \in owners(i, q - 1) : \A f \in owners(i, q - 1) : f <= e]]
        ilocals == [i \in 1..n |-> [q \in 1..npoints |->
                     IF owners(i, q - 1) = {} THEN 0
                     ELSE LET ind == getindex(samples[i], ielems[i][q]).val
                              ks == {k \in 1..Len(ind) : ind[k] = q - 1}
                          IN (CHOOSE k \in ks : \A j \in ks : j <= k) - 1]]
        stride(i) == Prod(SubSeq(nelems, i + 1, n))
        \* numpy.ravel_multi_index(ielems, nelems)
        flat == [q \in 1..npoints |-> SumSeq([i \in 1..n |-> ielems[i][q] * stride(i)])]
        \* numpy.unique(flat, return_inverse=True, return_counts=True)
        uniq == SortedSeq({flat[q] : q \in 1..npoints})
        inverse == [q \in 1..npoints |-> (CHOOSE u \in 1..Len(uniq) : uniq[u] = flat[q]) - 1]
        sizes == [u \in 1..Len(uniq) |-> Cardinality({q \in 1..npoints : inverse[q] = u - 1})]
        \* numpy.argsort(inverse): the points grouped by merged element, the
        \* points of one group in increasing order
        group(u) == SortedSeq({q - 1 : q \in {r \in 1..npoints : inverse[r] = u - 1}})
        indices == LET F[u \in 0..Len(uniq)] == IF u = 0 THEN <<>> ELSE F[u - 1] \o group(u)
                   IN F[Len(uniq)]
    IN [tag |-> "Zip", spaces |-> spaces, ndims |-> samples[1].ndims,
        nelems |-> Len(sizes), npoints |-> npoints, samples |-> samples,
        offsets |-> cumsum0(sizes), sizes |-> sizes, indices |-> indices,
        \* numpy.unravel_index(flat_ielems, nelems)
        ielems |-> [i \in 1..n |-> [u \in 1..Len(uniq) |->
                      (uniq[u] \div stride(i)) % nelems[i]]],
        ilocals |-> [i \in 1..n |-> take_ilocal(ilocals[i], indices)]]

\* util.sum(sample.spaces for sample in samples)
Zip_spaces(samples) ==
    LET F[i \in 0..Len(samples)] == IF i = 0 THEN <<>> ELSE F[i - 1] \o samples[i].spaces
    IN F[Len(samples)]

\* _Zip.__init__ without the test for overlapping spaces.
_Zip_points_only(samples) ==
    IF \E i \in 1..Len(samples) : samples[i].npoints # samples[1].npoints
    THEN Raise("ValueError")
    ELSE Ok(Zip_arrays(samples))

\* _Zip.__init__: the two tests, then the arrays.
_Zip(samples) ==
    IF \E i \in 1..Len(samples) : samples[i].npoints # samples[1].npoints
    THEN Raise("ValueError")
    ELSE IF Cardinality({Zip_spaces(samples)[k] : k \in 1..Len(Zip_spaces(samples))})
               < Len(Zip_spaces(samples))
    THEN Raise("ValueError")
    ELSE Ok(Zip_arrays(samples))

\* Sample.zip
Sample_zip(samples) == _Zip(samples)

----------------------------------------------------------------------------
\* Sample.__add__ and Sample.__mul__

\* __add__ with the point counts tested before the spaces.
__add__points_first(self, other) ==
    IF other.npoints = 0 THEN Ok(self)
    ELSE IF self.npoints = 0 THEN Ok(other)
    ELSE IF self.spaces # other.spaces THEN Raise("ValueError")
    ELSE Ok(_Add(self, other))

\* __add__ that drops an operand for having no elements, not no points.
__add__nelems(self, other) ==
    IF self.spaces # other.spaces THEN Raise("ValueError")
    ELSE IF other.nelems = 0 THEN Ok(self)
    ELSE IF self.nelems = 0 THEN Ok(other)
    ELSE Ok(_Add(self, other))

\* __add__ with the two identity tests in the other order.
__add__self_first(self, other) ==
    IF self.spaces # other.spaces THEN Raise("ValueError")
    ELSE IF self.npoints = 0 THEN Ok(other)
    ELSE IF other.npoints = 0 THEN Ok(self)
    ELSE Ok(_Add(self, other))

__add__(self, other) ==
    IF self.spaces # other.spaces THEN Raise("ValueError")
    ELSE IF other.npoints = 0 THEN Ok(self)
    ELSE IF self.npoints = 0 THEN Ok(other)
    ELSE Ok(_Add(self, other))

\* __mul__ without the test for common spaces.
__mul__unchecked(self, other) == Ok(_Mul(self, other))

__mul__(self, other) ==
    IF {self.spaces[k] : k \in 1..Len(self.spaces)}
         \cap {other.spaces[k] : k \in 1..Len(other.spaces)} # {}
    THEN Raise("ValueError")
    ELSE Ok(_Mul(self, other))

----------------------------------------------------------------------------
\* take_elements, one operator per variant.

\* The dtype numpy.array gives an index array built from a Python list of
\* ints: an empty list yields a float64 array.
numpy_array_dtype(list) == IF Len(list) = 0 THEN "float64" ELSE "int64"

\* Sample.take_elements without the test for an empty index list.
Sample_take_elements_unguarded(s, indices, dtype) == _TakeElements(s, indices)

Sample_take_elements(s, indices, dtype) ==
    IF Len(indices) > 0 THEN _TakeElements(s, indices)
    ELSE Ok(Sample_empty(s.spaces, s.ndims))

Empty_take_elements(s, indices, dtype) == Ok(s)

\* Masking and subtracting keep the dtype of the index array.
Add_take_elements(s, indices, dtype) ==
    LET mask == {k \in 1..Len(indices) : indices[k] < s.sample1.nelems}
        rest == Select(indices, (1..Len(indices)) \ mask)
        sample1 == take_elements(s.sample1, Select(indices, mask), dtype)
        sample2 == take_elements(s.sample2,
                       [k \in 1..Len(rest) |-> rest[k] - s.sample1.nelems], dtype)
    IN IF sample1.err # "none" THEN sample1
       ELSE IF sample2.err # "none" THEN sample2
       ELSE __add__(sample1.val, sample2.val)

\* numpy.take casts its indices to intp under the same-kind rule, which
\* refuses a float64 array of any length.
TakeElements_take_elements(s, indices, dtype) ==
    LET t == IF dtype = "int64" THEN numpy_take(s.indices, indices)
             ELSE Raise("TypeError")
    IN IF t.err # "none" THEN t ELSE take_elements(s.parent, t.val, "int64")

take_elements(s, indices, dtype) ==
    CASE s.tag = "Empty" -> Empty_take_elements(s, indices, dtype)
      [] s.tag = "Add" -> Add_take_elements(s, indices, dtype)
      [] s.tag = "TakeElements" -> TakeElements_take_elements(s, indices, dtype)
      [] OTHER -> Sample_take_elements(s, indices, dtype)

----------------------------------------------------------------------------
\* subset

\* [ielem for ielem in range(nelems) if mask[getindex(ielem)].any()]
selection(s, mask) ==
    LET any(ielem) == LET ind == getindex(s, ielem).val
                      IN \E k \in 1..Len(ind) : mask[ind[k] + 1]
    IN Select(arange(0, s.nelems), {q \in 1..s.nelems : any(q - 1)})

Sample_subset(s, mask) ==
    take_elements(s, selection(s, mask), numpy_array_dtype(selection(s, mask)))

\* _TransformChainsSample.subset: Sample.new without an index on the
\* selected transforms and points, so the result is a _DefaultIndex.
TransformChainsSample_subset(s, mask) ==
    LET sel == selection(s, mask)
    IN Ok(_DefaultIndex(s.space,
                        [k \in 1..Len(sel) |-> s.transforms[sel[k] + 1]],
                        [k \in 1..Len(sel) |-> s.points[sel[k] + 1]]))

subset(s, mask) ==
    CASE s.tag \in {"DefaultIndex", "CustomIndex"} -> TransformChainsSample_subset(s, mask)
      [] OTHER -> Sample_subset(s, mask)

----------------------------------------------------------------------------
\* get_element_tri, one operator per variant.  A triangulation table is a
\* sequence of rows, a row a sequence of local point numbers.

TransformChainsSample_get_element_tri(s, ielem) ==
    IF ~(0 <= ielem /\ ielem < s.nelems) THEN Raise("IndexError")
    ELSE Ok(s.points[ielem + 1].tri)

Empty_get_element_tri(s, ielem) == Raise("IndexError")

\* Add_get_element_tri asking the second part for element ielem itself.
Add_get_element_tri_unshifted(s, ielem) ==
    IF ielem < s.sample1.nelems THEN get_element_tri(s.sample1, ielem)
    ELSE get_element_tri(s.sample2, ielem)

Add_get_element_tri(s, ielem) ==
    IF ielem < s.sample1.nelems THEN get_element_tri(s.sample1, ielem)
    ELSE get_element_tri(s.sample2, ielem - s.sample1.nelems)

\* numeric.overlapping(rows, n): the windows of length n of every row.
overlapping(rows, n) ==
    LET F[r \in 0..Len(rows)] ==
            IF r = 0 THEN <<>>
            ELSE F[r - 1] \o [w \in 1..(Len(rows[r]) - n + 1) |-> SubSeq(rows[r], w, w + n - 1)]
    IN F[Len(rows)]

Mul_get_element_tri(s, ielem) ==
    IF s.sample1.ndims = 1 THEN
        IF s.sample2.nelems = 0 THEN Raise("ZeroDivisionError")
        ELSE LET ielem1 == ielem \div s.sample2.nelems
                 ielem2 == ielem % s.sample2.nelems
                 index2 == getindex(s.sample2, ielem2)
                 tri1 == get_element_tri(s.sample1, ielem1)
                 tri2 == get_element_tri(s.sample2, ielem2)
             IN IF index2.err # "none" THEN index2
                ELSE IF tri1.err # "none" THEN tri1
                ELSE IF tri2.err # "none" THEN tri2
                ELSE LET npoints2 == Len(index2.val)
                         n1 == Len(tri1.val)
                         n2 == Len(tri2.val)
                         row(t1, t2) ==
                             [c \in 1..Len(t2) |-> t1[1] * npoints2 + t2[c]]
                             \o [c \in 1..Len(t2) |-> t1[2] * npoints2 + t2[c]]
                         tri12 == [r \in 1..(n1 * n2) |->
                                     row(tri1.val[((r - 1) \div n2) + 1],
                                         tri2.val[((r - 1) % n2) + 1])]
                     IN Ok(overlapping(tri12, s.ndims + 1))
    ELSE IF s.sample1.npoints = 1 THEN get_element_tri(s.sample2, ielem)
    ELSE IF s.sample2.npoints = 1 THEN get_element_tri(s.sample1, ielem)
    ELSE Raise("NotImplementedError")

\* _Zip inherits Sample.get_element_tri.
Sample_get_element_tri(s, ielem) == Raise("NotImplementedError")

\* numpy.take(self._indices, ielem) of a checked ielem cannot raise.
TakeElements_get_element_tri(s, ielem) ==
    IF ~(0 <= ielem /\ ielem < s.nelems) THEN Raise("IndexError")
    ELSE get_element_tri(s.parent, s.indices[ielem + 1])

get_element_tri(s, ielem) ==
    CASE s.tag \in {"DefaultIndex", "CustomIndex"} -> TransformChainsSample_get_element_tri(s, ielem)
      [] s.tag = "Empty" -> Empty_get_element_tri(s, ielem)
      [] s.tag = "Add" -> Add_get_element_tri(s, ielem)
      [] s.tag = "Mul" -> Mul_get_element_tri(s, ielem)
      [] s.tag = "Zip" -> Sample_get_element_tri(s, ielem)
      [] s.tag = "TakeElements" -> TakeElements_get_element_tri(s, ielem)

----------------------------------------------------------------------------
\* tri, one operator per variant that defines it.

\* numpy.take(a, table) of an index array a and a table of positions in it.
take_table(a, table) ==
    LET rows == [r \in 1..Len(table) |-> numpy_take(a, table[r])]
        bad == {r \in 1..Len(table) : rows[r].err # "none"}
    IN IF bad # {} THEN Raise(rows[CHOOSE r \in bad : \A q \in bad : r <= q].err)
       ELSE Ok([r \in 1..Len(table) |-> rows[r].val])

\* table + offset
shift_table(table, offset) ==
    [r \in 1..Len(table) |-> [c \in 1..Len(table[r]) |-> table[r][c] + offset]]

\* numpy.concatenate(parts, axis=0) of tables; tables that have rows of
\* different widths cannot be joined.
concatenate(parts) ==
    LET F[i \in 0..Len(parts)] == IF i = 0 THEN <<>> ELSE F[i - 1] \o parts[i]
        all == F[Len(parts)]
    IN IF \E r, q \in 1..Len(all) : Len(all[r]) # Len(all[q]) THEN Raise("ValueError")
       ELSE Ok(all)

\* numpy.take(self.getindex(i), self.get_element_tri(i)) of the outcomes of
\* the two calls.
take_element_tri(ind, t) ==
    IF ind.err # "none" THEN ind
    ELSE IF t.err # "none" THEN t
    ELSE take_table(ind.val, t.val)

\* numpy.concatenate of the elements' tables, or the error of the first
\* element that has none.
concatenate_parts(parts) ==
    LET bad == {i \in 1..Len(parts) : parts[i].err # "none"}
    IN IF bad # {} THEN Raise(parts[CHOOSE i \in bad : \A j \in bad : i <= j].err)
       ELSE concatenate([i \in 1..Len(parts) |-> parts[i].val])

\* Sample.tri: the local triangulation of every element mapped through its
\* getindex; _Empty, _Zip and _TakeElements inherit it.
Sample_tri(s) ==
    IF s.nelems = 0 THEN Ok(<<>>)
    ELSE concatenate_parts([i \in 1..s.nelems |->
             take_element_tri(getindex(s, i - 1), get_element_tri(s, i - 1))])

\* points.tri of the points sequence of a leaf: the elements' local
\* triangulations, each shifted by the element's offset.
PointsSequence_tri(s) ==
    LET F[i \in 0..s.nelems] ==
            IF i = 0 THEN <<>>
            ELSE F[i - 1] \o shift_table(s.points[i].tri, offsets(s)[i])
    IN F[s.nelems]

DefaultIndex_tri(s) == Ok(PointsSequence_tri(s))

CustomIndex_tri(s) == take_table(s.index, PointsSequence_tri(s.parent))

Add_tri(s) ==
    LET tri1 == tri(s.sample1)
        tri2 == tri(s.sample2)
    IN IF tri1.err # "none" THEN tri1
       ELSE IF tri2.err # "none" THEN tri2
       ELSE concatenate(<<tri1.val, shift_table(tri2.val, s.sample1.npoints)>>)

Mul_tri(s) ==
    IF s.sample1.ndims = 1 THEN
        LET tri1 == tri(s.sample1)
            tri2 == tri(s.sample2)
        IN IF tri1.err # "none" THEN tri1
           ELSE IF tri2.err # "none" THEN tri2
           ELSE LET n2 == Len(tri2.val)
                    row(t1, t2) ==
                        [c \in 1..Len(t2) |-> t1[1] * s.sample2.npoints + t2[c]]
                        \o [c \in 1..Len(t2) |-> t1[2] * s.sample2.npoints + t2[c]]
                    tri12 == [r \in 1..(Len(tri1.val) * n2) |->
                                row(tri1.val[((r - 1) \div n2) + 1], tri2.val[((r - 1) % n2) + 1])]
                IN Ok(overlapping(tri12, s.ndims + 1))
    ELSE Sample_tri(s)

tri(s) ==
    CASE s.tag = "DefaultIndex" -> DefaultIndex_tri(s)
      [] s.tag = "CustomIndex" -> CustomIndex_tri(s)
      [] s.tag = "Add" -> Add_tri(s)
      [] s.tag = "Mul" -> Mul_tri(s)
      [] OTHER -> Sample_tri(s)

----------------------------------------------------------------------------
\* get_evaluable_weights, one operator per variant.
\* The weight of a point of a points sequence is the datum the sequence holds
\* for it: it is named by the space, the element's transform and the point's
\* local position.  The weights of an element are an array with one axis per
\* factor: a sequence of weights, or a sequence of rows [row |-> weights].

\* points.get_evaluable_weights(ielem) of the points sequence of a leaf.
PointsSequence_get_evaluable_weights(s, ielem) ==
    [k \in 1..s.points[ielem + 1].npoints |->
        [space |-> s.space, transform |-> s.transforms[ielem + 1], point |-> k - 1]]

\* evaluable._take(array, indices, axis=0)
evaluable_take(array, indices) ==
    IF \E k \in 1..Len(indices) : ~(0 <= indices[k] /\ indices[k] < Len(array))
    THEN Raise("IndexError")
    ELSE Ok([k \in 1..Len(indices) |-> array[indices[k] + 1]])

TransformChainsSample_get_evaluable_weights(s, ielem) ==
    Ok(PointsSequence_get_evaluable_weights(s, ielem))

\* Sample.get_evaluable_weights, which _Add inherits.
Sample_get_evaluable_weights(s, ielem) == Raise("NotImplementedError")

\* evaluable.Zeros of no entries.
Empty_get_evaluable_weights(s, ielem) == Ok(<<>>)

\* einsum('A,B->AB', weights1, weights2) of two one-axis arrays.
Mul_get_evaluable_weights(s, ielem) ==
    LET ielem1 == ielem \div s.sample2.nelems
        ielem2 == ielem % s.sample2.nelems
        weights1 == get_evaluable_weights(s.sample1, ielem1)
        weights2 == get_evaluable_weights(s.sample2, ielem2)
    IN IF weights1.err # "none" THEN weights1
       ELSE IF weights2.err # "none" THEN weights2
       ELSE Ok([a \in 1..Len(weights1.val) |-> [row |-> [b \in 1..Len(weights2.val) |->
                   [times |-> <<weights1.val[a], weights2.val[b]>>]]]])

\* _Zip._getslice: offsets[ielem] + range(sizes[ielem])
Zip_getslice(s, ielem) ==
    [k \in 1..s.sizes[ielem + 1] |-> s.offsets[ielem + 1] + k - 1]

\* _Zip.get_evaluable_weights: the first sample's weights at the points'
\* local positions, taken along axis 0.
Zip_get_evaluable_weights(s, ielem) ==
    LET ielem0 == s.ielems[1][ielem + 1]
        slice0 == [k \in 1..s.sizes[ielem + 1] |->
                      s.ilocals[1][Zip_getslice(s, ielem)[k] + 1]]
        weights == get_evaluable_weights(s.samples[1], ielem0)
    IN IF weights.err # "none" THEN weights ELSE evaluable_take(weights.val, slice0)

TakeElements_get_evaluable_weights(s, ielem) ==
    get_evaluable_weights(s.parent, s.indices[ielem + 1])

\* An element index outside [0, nelems) is refused when the graph is
\* evaluated.
get_evaluable_weights(s, ielem) ==
    CASE s.tag = "Add" -> Sample_get_evaluable_weights(s, ielem)
      [] s.tag # "Add" /\ ~(0 <= ielem /\ ielem < s.nelems) -> Raise("IndexError")
      [] s.tag \in {"DefaultIndex", "CustomIndex"} -> TransformChainsSample_get_evaluable_weights(s, ielem)
      [] s.tag = "Empty" -> Empty_get_evaluable_weights(s, ielem)
      [] s.tag = "Mul" -> Mul_get_evaluable_weights(s, ielem)
      [] s.tag = "Zip" -> Zip_get_evaluable_weights(s, ielem)
      [] s.tag = "TakeElements" -> TakeElements_get_evaluable_weights(s, ielem)

----------------------------------------------------------------------------
\* get_lower_args and get_evaluable_indices, one operator per variant.  The
\* points of an element are an array with one axis per factor, as the weights
\* are.  A point is the set of its coordinates, one per space; a coordinate is
\* named by the space, the element's transform, the local position and the
\* number of points of the points object it is a point of.

\* The number of point axes of the arrays of a sample.
PointAxes(s) ==
    CASE s.tag = "Mul" -> PointAxes(s.sample1) + PointAxes(s.sample2)
      [] s.tag = "TakeElements" -> PointAxes(s.parent)
      [] s.tag = "Empty" -> Len(s.spaces)
      [] OTHER -> 1

\* evaluable._flat and the Ravel loop of _ConcatenatePoints.lower: the entries
\* of an array of the given number of axes in row-major order.
Ravel(axes, array) ==
    IF axes = 1 THEN array
    ELSE LET F[i \in 0..Len(array)] ==
                 IF i = 0 THEN <<>> ELSE F[i - 1] \o Ravel(axes - 1, array[i].row)
         IN F[Len(array)]

\* LowerArgs.for_space(space, transforms, ielem, points.get_evaluable_coords(ielem))
TransformChainsSample_get_lower_args(s, ielem) ==
    Ok([k \in 1..s.points[ielem + 1].npoints |->
           {[space |-> s.space, transform |-> s.transforms[ielem + 1], point |-> k - 1,
             of |-> s.points[ielem + 1].npoints]}])

\* Sample.get_lower_args, which _Add inherits.
Sample_get_lower_args(s, ielem) == Raise("NotImplementedError")

\* LowerArgs((), {}, {})
Empty_get_lower_args(s, ielem) == Ok(<<>>)

\* args1 | args2 of two one-axis factors: the points are the pairs.
Mul_get_lower_args(s, ielem) ==
    LET args1 == get_lower_args(s.sample1, ielem \div s.sample2.nelems)
        args2 == get_lower_args(s.sample2, ielem % s.sample2.nelems)
    IN IF args1.err # "none" THEN args1
       ELSE IF args2.err # "none" THEN args2
       ELSE Ok([a \in 1..Len(args1.val) |-> [row |-> [b \in 1..Len(args2.val) |->
                   args1.val[a] \cup args2.val[b]]]])

\* _Zip.get_lower_args: of every sample the coordinates of its element
\* ielems[ielem], taken along axis 0 at the points' local positions.  Only
\* coordinates of one point axis fit the points shape (sizes[ielem],).
Zip_get_lower_args(s, ielem) ==
    LET n == Len(s.samples)
        slice(i) == [k \in 1..s.sizes[ielem + 1] |-> s.ilocals[i][Zip_getslice(s, ielem)[k] + 1]]
        taken(i) == LET argsi == get_lower_args(s.samples[i], s.ielems[i][ielem + 1])
                    IN IF argsi.err # "none" THEN argsi
                       ELSE IF evaluable_take(argsi.val, slice(i)).err # "none"
                       THEN evaluable_take(argsi.val, slice(i))
                       ELSE IF PointAxes(s.samples[i]) # 1 THEN Raise("ValueError")
                       ELSE evaluable_take(argsi.val, slice(i))
        bad == {i \in 1..n : taken(i).err # "none"}
    IN IF bad # {} THEN Raise(taken(CHOOSE i \in bad : \A j \in bad : i <= j).err)
       ELSE Ok([k \in 1..s.sizes[ielem + 1] |-> UNION {taken(i).val[k] : i \in 1..n}])

TakeElements_get_lower_args(s, ielem) ==
    get_lower_args(s.parent, s.indices[ielem + 1])

\* An element index outside [0, nelems) is refused when the graph is
\* evaluated.
get_lower_args(s, ielem) ==
    CASE s.tag = "Add" -> Sample_get_lower_args(s, ielem)
      [] s.tag # "Add" /\ ~(0 <= ielem /\ ielem < s.nelems) -> Raise("IndexError")
      [] s.tag \in {"DefaultIndex", "CustomIndex"} -> TransformChainsSample_get_lower_args(s, ielem)
      [] s.tag = "Empty" -> Empty_get_lower_args(s, ielem)
      [] s.tag = "Mul" -> Mul_get_lower_args(s, ielem)
      [] s.tag = "Zip" -> Zip_get_lower_args(s, ielem)
      [] s.tag = "TakeElements" -> TakeElements_get_lower_args(s, ielem)

\* Range(npoints) + offset
DefaultIndex_get_evaluable_indices(s, ielem) ==
    Ok([k \in 1..s.points[ielem + 1].npoints |-> offsets(s)[ielem + 1] + k - 1])

\* Take(Constant(self._index), self._parent.get_evaluable_indices(ielem))
CustomIndex_get_evaluable_indices(s, ielem) ==
    evaluable_take(s.index, DefaultIndex_get_evaluable_indices(s.parent, ielem).val)

\* Sample.get_evaluable_indices, which _Add inherits.
Sample_get_evaluable_indices(s, ielem) == Raise("NotImplementedError")

Empty_get_evaluable_indices(s, ielem) == Ok(<<>>)

\* index1 * sample2.npoints + index2, flattened.
Mul_get_evaluable_indices(s, ielem) ==
    LET index1 == get_evaluable_indices(s.sample1, ielem \div s.sample2.nelems)
        index2 == get_evaluable_indices(s.sample2, ielem % s.sample2.nelems)
    IN IF index1.err # "none" THEN index1
       ELSE IF index2.err # "none" THEN index2
       ELSE LET n2 == Len(index2.val)
            IN Ok([k \in 1..(Len(index1.val) * n2) |->
                      index1.val[((k - 1) \div n2) + 1] * s.sample2.npoints
                      + index2.val[((k - 1) % n2) + 1]])

\* Take(Constant(self._indices), self._getslice(ielem))
Zip_get_evaluable_indices(s, ielem) == evaluable_take(s.indices, Zip_getslice(s, ielem))

\* Range(size of the parent's element) + offsets[ielem], the offsets summed from
\* the sizes of the parent's elements self._indices names.
TakeElements_get_evaluable_indices(s, ielem) ==
    LET sizes == [i \in 1..s.nelems |-> get_evaluable_indices(s.parent, s.indices[i])]
        bad == {i \in 1..s.nelems : sizes[i].err # "none"}
    IN IF bad # {} THEN Raise(sizes[CHOOSE i \in bad : \A j \in bad : i <= j].err)
       ELSE LET off == cumsum0([i \in 1..s.nelems |-> Len(sizes[i].val)])
            IN Ok([k \in 1..Len(sizes[ielem + 1].val) |-> off[ielem + 1] + k - 1])

\* The flattened indices of an element.  An element index outside [0, nelems)
\* is refused when the graph is evaluated.
get_evaluable_indices(s, ielem) ==
    CASE s.tag = "Add" -> Sample_get_evaluable_indices(s, ielem)
      [] s.tag # "Add" /\ ~(0 <= ielem /\ ielem < s.nelems) -> Raise("IndexError")
      [] s.tag = "DefaultIndex" -> DefaultIndex_get_evaluable_indices(s, ielem)
      [] s.tag = "CustomIndex" -> CustomIndex_get_evaluable_indices(s, ielem)
      [] s.tag = "Empty" -> Empty_get_evaluable_indices(s, ielem)
      [] s.tag = "Mul" -> Mul_get_evaluable_indices(s, ielem)
      [] s.tag = "Zip" -> Zip_get_evaluable_indices(s, ielem)
      [] s.tag = "TakeElements" -> TakeElements_get_evaluable_indices(s, ielem)

----------------------------------------------------------------------------
\* basis, one operator per variant.  A function node is a record that holds
\* what its constructor is given and its shape.

\* The interpolation values basis is called with: the two valid ones and one
\* that is not.
Interpolations == {"none", "nearest", "linear"}

\* _Basis.__init__
_Basis(sample, interpolation) ==
    IF interpolation \notin {"none", "nearest"} THEN Raise("ValueError")
    ELSE Ok([node |-> "Basis", sample |-> sample, interpolation |-> interpolation,
             shape |-> <<sample.npoints>>])

TransformChainsSample_basis(s, interpolation) == _Basis(s, interpolation)

\* Sample.basis, which _Add, _Zip and _TakeElements inherit.
Sample_basis(s, interpolation) == Raise("NotImplementedError")

\* function.zeros((0,), float)
Empty_basis(s, interpolation) == Ok([node |-> "zeros", shape |-> <<0>>])

\* numpy.ravel(basis1[:, None] * basis2[None, :])
Mul_basis(s, interpolation) ==
    LET basis1 == basis(s.sample1, interpolation)
        basis2 == basis(s.sample2, interpolation)
    IN IF basis1.err # "none" THEN basis1
       ELSE IF basis2.err # "none" THEN basis2
       ELSE IF Len(basis1.val.shape) # 1 \/ Len(basis2.val.shape) # 1 THEN Raise("AssertionError")
       ELSE Ok([node |-> "ravel", basis1 |-> basis1.val, basis2 |-> basis2.val,
                shape |-> <<basis1.val.shape[1] * basis2.val.shape[1]>>])

basis(s, interpolation) ==
    CASE s.tag \in {"DefaultIndex", "CustomIndex"} -> TransformChainsSample_basis(s, interpolation)
      [] s.tag = "Empty" -> Empty_basis(s, interpolation)
      [] s.tag = "Mul" -> Mul_basis(s, interpolation)
      [] OTHER -> Sample_basis(s, interpolation)

----------------------------------------------------------------------------
\* Evaluation.  A function is evaluated point by point; sample(func) is the
\* array of one row per point of the sample.

\* Whether the graph of an element's points and indices can be built: the
\* error the methods raise on the symbolic element index, whatever the number
\* of elements.
Lowers(s) ==
    CASE s.tag = "Add" -> "NotImplementedError"
      [] s.tag = "Mul" -> IF Lowers(s.sample1) # "none" THEN Lowers(s.sample1) ELSE Lowers(s.sample2)
      [] s.tag = "TakeElements" -> Lowers(s.parent)
      [] s.tag = "Zip" ->
           LET bad == {i \in 1..Len(s.samples) :
                          Lowers(s.samples[i]) # "none" \/ PointAxes(s.samples[i]) # 1}
           IN IF bad = {} THEN "none"
              ELSE LET i == CHOOSE i \in bad : \A j \in bad : i <= j
                   IN IF Lowers(s.samples[i]) # "none" THEN Lowers(s.samples[i]) ELSE "ValueError"
      [] OTHER -> "none"

\* evaluable.Inflate(func, indices, length): row j of func lands in row
\* indices[j]; the rows that land together are summed.
Inflate(func, indices, length) ==
    IF \E j \in 1..Len(indices) : ~(0 <= indices[j] /\ indices[j] < length)
    THEN Raise("IndexError")
    ELSE Ok([i \in 1..length |->
                LET js == {j \in 1..Len(indices) : indices[j] = i - 1}
                IN IF Cardinality(js) = 1 THEN func[CHOOSE j \in js : TRUE]
                   ELSE [sum |-> {<<j, func[j]>> : j \in js}]])

\* The concatenation of the arrays of a sequence of outcomes, or the first
\* error among them.
Concatenated(parts) ==
    LET bad == {i \in 1..Len(parts) : parts[i].err # "none"}
        F[i \in 0..Len(parts)] == IF i = 0 THEN <<>> ELSE F[i - 1] \o parts[i].val
    IN IF bad # {} THEN parts[CHOOSE i \in bad : \A j \in bad : i <= j]
       ELSE Ok(F[Len(parts)])

\* The unit vector of the given length with the one at position g (0-based).
Unit(g, length) == [i \in 1..length |-> IF i - 1 = g THEN 1 ELSE 0]

\* evaluable.Sampled(coords, expect, interpolation) for one point: with
\* "none" the coordinates must be those of the sample's element; with
\* "nearest" a point of another points object is given to the nearest point,
\* modelled as the last one when the position is past the end.
Sampled(coord, npts, interpolation) ==
    IF coord.of = npts THEN Ok(coord.point)
    ELSE IF interpolation = "none" THEN Raise("AssertionError")
    ELSE IF npts = 0 THEN Raise("ValueError")
    ELSE Ok(IF coord.point < npts THEN coord.point ELSE npts - 1)

\* _Basis.lower at one point: the element of the basis' sample is looked up by
\* the transform of the point's coordinate in the sample's space, the local
\* position is sampled against the element's points and inflated to the
\* sample's global index.
Basis_lower(f, point) ==
    LET s == f.sample
        cs == {c \in point : c.space = s.space}
    IN IF cs = {} THEN Raise("KeyError")
       ELSE LET c == CHOOSE c \in cs : TRUE
                found == {i \in 1..s.nelems : s.transforms[i] = c.transform}
            IN IF found = {} THEN Raise("ValueError")
               ELSE LET index == (CHOOSE i \in found : TRUE) - 1
                        sampled == Sampled(c, s.points[index + 1].npoints, f.interpolation)
                        indices == get_evaluable_indices(s, index)
                    IN IF sampled.err # "none" THEN sampled
                       ELSE IF indices.err # "none" THEN indices
                       ELSE Ok(Unit(indices.val[sampled.val + 1], s.npoints))

\* evaluable.unalign: the axes of the aligned coordinates that the unaligned
\* coordinates retain, one per axis of the unaligned array.  Which ones it
\* retains depends on how the coordinates were built: any tuple of distinct
\* axes 0..rank can come back.
Wheres(rank) ==
    {w \in UNION {[1..n -> 0..rank] : n \in 0..(rank + 1)} :
        \A i \in DOMAIN w : \A j \in DOMAIN w : i # j => w[i] # w[j]}

\* _Basis.lower, the axes: the coordinate axis, numbered len(args.points_shape),
\* is re-inserted or moved to the end of where, and the basis is aligned to
\* the point axes and the axis of the sample's points.  The re-insertion reads
\* the name points_shape, which the method does not bind.
Basis_lower_axes(s, points_shape, where) ==
    LET retained == {where[i] : i \in DOMAIN where}
        shape == Append(points_shape, s.npoints)
    IN IF Len(points_shape) \notin retained THEN Raise("NameError")
       ELSE IF where[Len(where)] # Len(points_shape)
       THEN Ok([node |-> "align", where |-> SortedSeq(retained), shape |-> shape])
       ELSE Ok([node |-> "align", where |-> where, shape |-> shape])

RavelOuter_swapped(v1, v2) ==
    [i \in 1..(Len(v1) * Len(v2)) |->
        v2[((i - 1) \div Len(v1)) + 1] * v1[((i - 1) % Len(v1)) + 1]]

\* numpy.ravel(basis1[:, None] * basis2[None, :])
RavelOuter(v1, v2) ==
    [i \in 1..(Len(v1) * Len(v2)) |->
        v1[((i - 1) \div Len(v2)) + 1] * v2[((i - 1) % Len(v2)) + 1]]

\* function.matmat(basis, array) at a point where the basis is v.
matmat(v, array) == SumSeq([i \in 1..Len(v) |-> v[i] * array[i]])

\* An outcome as an array of one row.
Row(v) == IF v.err # "none" THEN v ELSE Ok(<<v.val>>)

\* The function at the points args of one element, the point axes ravelled.
AtPoints(axes, args, func, ctx) ==
    IF args.err # "none" THEN args
    ELSE Concatenated([k \in 1..Len(Ravel(axes, args.val)) |->
             Row(lower(func, ctx \cup Ravel(axes, args.val)[k]))])

\* _ConcatenatePoints.lower: the function at the points of the elements in
\* element order, the point axes of an element ravelled.
_ConcatenatePoints(s, func, ctx) ==
    IF Lowers(s) # "none" THEN Raise(Lowers(s))
    ELSE Concatenated([e \in 1..s.nelems |->
             AtPoints(PointAxes(s), get_lower_args(s, e - 1), func, ctx)])

\* _ReorderPoints.lower
_ReorderPoints(func, indices) ==
    IF func.err # "none" THEN func
    ELSE IF indices.err # "none" THEN indices
    ELSE Inflate(func.val, indices.val, Len(indices.val))

\* Sample.__call__, which _CustomIndex, _Zip and _TakeElements inherit.
Sample_call(s, func, ctx) ==
    LET indices == IF s.tag = "Add" THEN Sample_get_evaluable_indices(s, 0)
                   ELSE Concatenated([e \in 1..s.nelems |-> get_evaluable_indices(s, e - 1)])
    IN IF indices.err = "NotImplementedError" THEN indices
       ELSE _ReorderPoints(_ConcatenatePoints(s, func, ctx), indices)

\* _DefaultIndex.__call__
DefaultIndex_call(s, func, ctx) == _ConcatenatePoints(s, func, ctx)

\* _Empty.__call__: zeros((0, *func.shape))
Empty_call(s, func, ctx) == Ok(<<>>)

\* _Add.__call__: numpy.concatenate([sample1(func), sample2(func)])
Add_call(s, func, ctx) ==
    Concatenated(<<SampleCall(s.sample1, func, ctx), SampleCall(s.sample2, func, ctx)>>)

\* _Mul.__call__: numpy.reshape(sample1(sample2(func)), (-1, *func.shape))
Mul_call(s, func, ctx) ==
    LET nested == SampleCall(s.sample1, [node |-> "call", sample |-> s.sample2, func |-> func], ctx)
    IN IF nested.err # "none" THEN nested
       ELSE Ok(Ravel(2, [a \in 1..Len(nested.val) |-> [row |-> nested.val[a]]]))

\* sample(func), with the coordinates ctx of the spaces the sample does not
\* cover.
SampleCall(s, func, ctx) ==
    CASE s.tag = "DefaultIndex" -> DefaultIndex_call(s, func, ctx)
      [] s.tag = "Empty" -> Empty_call(s, func, ctx)
      [] s.tag = "Add" -> Add_call(s, func, ctx)
      [] s.tag = "Mul" -> Mul_call(s, func, ctx)
      [] OTHER -> Sample_call(s, func, ctx)

\* The numbers the points objects and the integrand hold.  The weight of
\* point k of an element and the value of the function "value" at a
\* coordinate are numbers that tell the coordinates of a space apart.
CoordCode(c) ==
    1 + c.point + MaxPts * (c.transform + (IF c.space = "X" THEN 0 ELSE MaxElems))

\* The value of a weight: of a product's weight, the product of the factors'.
weight_value(w) ==
    IF "times" \in DOMAIN w THEN weight_value(w.times[1]) * weight_value(w.times[2])
    ELSE CoordCode(w)

SetSum(S) ==
    IF S = {} THEN 0
    ELSE LET c == CHOOSE c \in S : TRUE IN c + SetSum(S \ {c})

\* The function "value" at a point: a number that depends on every
\* coordinate of the point.
PointValue(point) == SetSum({3 * CoordCode(c) + 1 : c \in point})

\* Arrays of a shape of no axis or one axis: zero, sum and multiple.
Zero(shape) == IF shape = <<>> THEN 0 ELSE [i \in 1..shape[1] |-> 0]

Plus(shape, u, v) == IF shape = <<>> THEN u + v ELSE [i \in 1..shape[1] |-> u[i] + v[i]]

Times(shape, w, v) == IF shape = <<>> THEN w * v ELSE [i \in 1..shape[1] |-> w * v[i]]

\* The sum of the arrays of a sequence of outcomes, or the first error among
\* them.
Summed(shape, parts) ==
    LET bad == {i \in 1..Len(parts) : parts[i].err # "none"}
        F[i \in 0..Len(parts)] ==
            IF i = 0 THEN Zero(shape) ELSE Plus(shape, F[i - 1], parts[i].val)
    IN IF bad # {} THEN parts[CHOOSE i \in bad : \A j \in bad : i <= j]
       ELSE Ok(F[Len(parts)])

\* _Integral.lower: the loop_sum over the elements of
\* einsum('B,ABC->AC', weights, integrand), the integrand lowered at the
\* element's points.
Integral_lower(func, point) ==
    LET s == func.sample
        elem(e) ==
            LET weights == get_evaluable_weights(s, e - 1)
                args == get_lower_args(s, e - 1)
            IN IF weights.err # "none" THEN weights
               ELSE IF args.err # "none" THEN args
               ELSE LET ws == Ravel(PointAxes(s), weights.val)
                        pts == Ravel(PointAxes(s), args.val)
                    IN Summed(func.shape, [k \in 1..Len(pts) |->
                           LET v == lower(func.integrand, point \cup pts[k])
                           IN IF v.err # "none" THEN v
                              ELSE Ok(Times(func.shape, weight_value(ws[k]), v.val))])
    IN IF Lowers(s) # "none" THEN Raise(Lowers(s))
       ELSE Summed(func.shape, [e \in 1..s.nelems |-> elem(e)])

\* function.Array.lower at one point: the value of the function there.
\* "coords" is the function whose value is the point itself.
lower(func, point) ==
    CASE func.node = "coords" -> Ok(point)
      [] func.node = "value" -> Ok(PointValue(point))
      [] func.node = "Basis" -> Basis_lower(func, point)
      [] func.node = "zeros" -> Ok(Zero(func.shape))
      [] func.node = "Integral" -> Integral_lower(func, point)
      [] func.node = "add" ->
           LET v1 == lower(func.left, point)
               v2 == lower(func.right, point)
           IN IF v1.err # "none" THEN v1
              ELSE IF v2.err # "none" THEN v2
              ELSE Ok(Plus(func.shape, v1.val, v2.val))
      [] func.node = "ravel" ->
           LET v1 == lower(func.basis1, point)
               v2 == lower(func.basis2, point)
           IN IF v1.err # "none" THEN v1
              ELSE IF v2.err # "none" THEN v2
              ELSE Ok(RavelOuter(v1.val, v2.val))
      [] func.node = "matmat" ->
           LET v == lower(func.basis, point)
           IN IF v.err # "none" THEN v ELSE Ok(matmat(v.val, func.array))
      [] func.node = "call" -> SampleCall(func.sample, func.func, point)

\* Sample.integral: _Integral(func, self)
Sample_integral(s, func) ==
    [node |-> "Integral", integrand |-> func, sample |-> s, shape |-> func.shape]

\* _Empty.integral: function.zeros(func.shape, func.dtype)
Empty_integral(s, func) == [node |-> "zeros", shape |-> func.shape]

\* _Add.integral: sample1.integral(func) + sample2.integral(func)
Add_integral(s, func) ==
    [node |-> "add", left |-> integral(s.sample1, func),
     right |-> integral(s.sample2, func), shape |-> func.shape]

\* _Mul.integral: sample1.integral(sample2.integral(func))
Mul_integral(s, func) == integral(s.sample1, integral(s.sample2, func))

integral(s, func) ==
    CASE s.tag = "Empty" -> Empty_integral(s, func)
      [] s.tag = "Add" -> Add_integral(s, func)
      [] s.tag = "Mul" -> Mul_integral(s, func)
      [] OTHER -> Sample_integral(s, func)

\* Sample.asfunction
asfunction(s, array, interpolation) ==
    LET b == basis(s, interpolation)
    IN IF b.err # "none" THEN b
       ELSE Ok([node |-> "matmat", basis |-> b.val, array |-> array, shape |-> <<>>])

\* Sample.eval of one function: sparse.toarray of the evaluated sample(func).
eval(s, func) == SampleCall(s, func, {})

----------------------------------------------------------------------------
\* Integration results.  The sparse data of an integrand is a shape and a
\* sequence of entries, each an index tuple and a value; entries may repeat an
\* index and may hold a zero.

\* sparse.ndim
sparse_ndim(data) == Len(data.shape)

\* The index tuples of a shape.
Indices(shape) ==
    {idx \in UNION {[1..Len(shape) -> 0..(shape[i] - 1)] : i \in 1..Len(shape)} \cup {<<>>} :
        /\ Len(idx) = Len(shape)
        /\ \A i \in 1..Len(shape) : idx[i] < shape[i]}

\* The sum of the values of the entries at an index.
ValueAt(entries, idx) ==
    LET F[i \in 0..Len(entries)] ==
            IF i = 0 THEN 0
            ELSE F[i - 1] + (IF entries[i].index = idx THEN entries[i].value ELSE 0)
    IN F[Len(entries)]

\* sparse.toarray: the dense array, the values of a repeated index summed.
sparse_toarray(data) ==
    [kind |-> "array", shape |-> data.shape,
     dense |-> [idx \in Indices(data.shape) |-> ValueAt(data.entries, idx)]]

\* matrix.fromsparse: the matrix object of the assembled entries.
matrix_fromsparse(data) ==
    [kind |-> "matrix", shape |-> data.shape,
     dense |-> [idx \in Indices(data.shape) |-> ValueAt(data.entries, idx)]]

\* The order of index tuples of equal length.
LexLess(a, b) ==
    \E i \in 1..Len(a) : a[i] < b[i] /\ \A j \in 1..(i - 1) : a[j] = b[j]

\* The tuples of a set of index tuples in increasing order.
SortedIndices(S) ==
    IF S = {} THEN <<>>
    ELSE LET m == CHOOSE a \in S : \A b \in S \ {a} : LexLess(a, b)
         IN <<m>> \o SortedIndices(S \ {m})

\* sparse.dedup: one entry per index, in index order, the values summed.
sparse_dedup(data) ==
    LET idxs == SortedIndices({data.entries[i].index : i \in 1..Len(data.entries)})
    IN [kind |-> "sparse", shape |-> data.shape,
        entries |-> [i \in 1..Len(idxs) |->
                        [index |-> idxs[i], value |-> ValueAt(data.entries, idxs[i])]]]

\* sparse.prune: the entries with a zero value removed.
sparse_prune(data) ==
    [data EXCEPT !.entries =
        Select(data.entries, {i \in 1..Len(data.entries) : data.entries[i].value # 0})]

\* _convert
_convert(data) ==
    IF sparse_ndim(data) < 2 THEN sparse_toarray(data)
    ELSE IF sparse_ndim(data) = 2 THEN matrix_fromsparse(data)
    ELSE sparse_prune(sparse_dedup(data))

\* converted * scale: numpy arrays and matrix objects multiply by a scalar; a
\* sparse table is a structured array, for which numpy has no multiplication.
times_scale(converted, scale) ==
    IF converted.kind = "sparse" THEN Raise("TypeError")
    ELSE Ok([converted EXCEPT !.dense = [idx \in DOMAIN converted.dense |->
                                            converted.dense[idx] * scale]])

\* The tuple of the outcomes of a sequence, or the first error among them.
TupleOf(parts) ==
    LET bad == {i \in 1..Len(parts) : parts[i].err # "none"}
    IN IF bad # {} THEN parts[CHOOSE i \in bad : \A j \in bad : i <= j]
       ELSE Ok([i \in 1..Len(parts) |-> parts[i].val])

\* A mapping of argument names is a function on a set of names; a value is
\* an array or a mapping, told apart by its type field, and v holds the items
\* of a mapping.
argdict_unchecked(arguments) ==
    IF Cardinality(DOMAIN arguments) = 1 /\ "arguments" \in DOMAIN arguments
    THEN arguments["arguments"].v
    ELSE arguments

\* argdict
argdict(arguments) ==
    IF /\ Cardinality(DOMAIN arguments) = 1
       /\ "arguments" \in DOMAIN arguments
       /\ arguments["arguments"].type = "mapping"
    THEN arguments["arguments"].v
    ELSE arguments

\* Sample.integrate, given the keyword arguments of the call, the sparse data
\* integrate_sparse yields for the integrands and the scales cast_withscale
\* splits off them: the mapping handed to integrate_sparse and the results.
integrate(datas, funcscales, arguments) ==
    [engine |-> argdict(arguments),
     res |-> TupleOf([i \in 1..Len(datas) |-> times_scale(_convert(datas[i]), funcscales[i])])]

\* eval_integrals, given the keyword arguments of the call and the sparse data
\* evaluable.eval_sparse yields.
eval_integrals(datas, arguments) ==
    [engine |-> argdict(arguments),
     res |-> Ok([i \in 1..Len(datas) |-> _convert(datas[i])])]

----------------------------------------------------------------------------
\* The entry points.  The argument of an entry point names one function or a
\* sequence of functions: it is the record of whether it is a sequence and of
\* the functions it names, in order.

\* util.single_or_multiple, the argument: the body is handed the functions as
\* a tuple.
as_tuple(arg) == arg.funcs

\* util.single_or_multiple, the return value: the body's results as a tuple
\* for a sequence, the only result for one function.
single_or_multiple(arg, retvals) ==
    IF retvals.err # "none" THEN retvals
    ELSE IF arg.multiple THEN Ok([i \in 1..Len(retvals.val) |-> retvals.val[i]])
    ELSE Ok(retvals.val[1])

\* Sample.eval_sparse: evaluable.eval_sparse(map(self, funcs), **(arguments or
\* {})).  The mapping handed to the engine and the sparse data of sample(func)
\* for every function.
Sparse(a) == IF a.err # "none" THEN a ELSE Ok([sparse |-> a.val])

Sample_eval_sparse(s, arg, arguments) ==
    [funcs |-> as_tuple(arg), engine |-> arguments,
     ret |-> single_or_multiple(arg,
                TupleOf([i \in 1..Len(as_tuple(arg)) |->
                            Sparse(SampleCall(s, as_tuple(arg)[i], {}))]))]

\* sparse.toarray(data) * funcscale of every result of eval_sparse, the scale
\* being 1.
toarrays(datas) ==
    IF datas.err # "none" THEN datas
    ELSE Ok([i \in 1..Len(datas.val) |-> datas.val[i].sparse])

\* What Sample.eval makes of the outcome of its call of eval_sparse.
Sample_eval_assembled(arg, out) ==
    [funcs |-> as_tuple(arg), engine |-> out.engine,
     ret |-> single_or_multiple(arg, toarrays(out.ret))]

\* Sample.eval: the keyword arguments util.positional_only collects go to
\* eval_sparse as they are; sparse.toarray of every result, times the scale 1.
Sample_eval(s, arg, arguments) ==
    Sample_eval_assembled(arg,
        Sample_eval_sparse(s, [multiple |-> TRUE, funcs |-> as_tuple(arg)], arguments))

\* Sample.integrate_sparse, given the sparse data the engine yields for the
\* integrals: evaluable.eval_sparse(map(self.integral, funcs), **(arguments or
\* {})).
Sample_integrate_sparse(arg, arguments) ==
    [funcs |-> as_tuple(arg), engine |-> arguments,
     ret |-> single_or_multiple(arg, Ok(as_tuple(arg)))]

\* Sample.integrate as the caller sees it, the integrands given by their
\* sparse data.
Sample_integrate(arg, funcscales, arguments) ==
    LET out == integrate(as_tuple(arg), funcscales, arguments)
    IN [funcs |-> as_tuple(arg), engine |-> out.engine, ret |-> single_or_multiple(arg, out.res)]

----------------------------------------------------------------------------
\* The samples the calls are made on, and the calls.

\* The per-element points objects a points sequence over a d-dimensional
\* space can supply: n points and a local triangulation of d+1 columns (the
\* chain of consecutive simplices).
Points(n, d) ==
    [npoints |-> n, tri |-> [r \in 1..(IF n > d THEN n - d ELSE 0) |-> [c \in 1..(d + 1) |-> r + c - 2]]]

\* Sample.new without an index: the leaves over a points sequence of at most
\* MaxElems elements of at most MaxPts points each.
Leaves ==
    UNION {{_DefaultIndex(space, [i \in 1..k |-> i - 1],
                          [i \in 1..k |-> Points(sizes[i], fromdims(space))]) :
               sizes \in [1..k -> 0..MaxPts]} :
           <<space, k>> \in Spaces \X (0..MaxElems)}

\* Sample.new with an index: the reversed point order.
Reindexed ==
    {_CustomIndex(l, [i \in 1..l.npoints |-> l.npoints - i]) : l \in {m \in Leaves : m.npoints >= 2}}

Empties == {Sample_empty(<<space>>, fromdims(space)) : space \in Spaces}

Base == Leaves \cup Reindexed \cup Empties

\* Constructor nodes of a sample.
Size(s) ==
    CASE s.tag \in {"Add", "Mul"} -> 1 + Size(s.sample1) + Size(s.sample2)
      [] s.tag = "Zip" -> 1 + SumSeq([i \in 1..Len(s.samples) |-> Size(s.samples[i])])
      [] s.tag = "TakeElements" -> 1 + Size(s.parent)
      [] OTHER -> 1

Keep(s) == s.npoints <= MaxNPoints /\ Size(s) <= MaxSize

\* The sample at hand after a call: the returned sample if there is one
\* within the bounds.
After(res) == IF res.err = "none" /\ Keep(res.val) THEN res.val ELSE x

Init ==
    /\ x = Sample_empty(<<"X">>, 1)
    /\ last = [op |-> "idle"]
    /\ objs = <<>>
    /\ threads = [t \in 1..MaxThreads |-> [pc |-> "idle", id |-> 0, val |-> <<>>, got |-> <<>>]]

\* A call is made when the previous one has returned.
Idle == last.op = "idle"

\* The previous call has returned; its outcome is no longer looked at.
Return ==
    /\ ~Idle
    /\ x' = x
    /\ last' = [op |-> "idle"]
    /\ UNCHANGED <<objs, threads>>

New ==
    /\ Idle
    /\ \E s \in Base :
        /\ x' = s
        /\ last' = [op |-> "new", res |-> Ok(s)]
    /\ UNCHANGED <<objs, threads>>

\* add, multiply and zip are called on operands of at most MaxOperand nodes.
Add ==
    /\ Idle
    /\ Size(x) <= MaxOperand
    /\ \E other \in Base :
        /\ last' = [op |-> "add", self |-> x, other |-> other, res |-> __add__(x, other)]
        /\ x' = After(last'.res)
    /\ UNCHANGED <<objs, threads>>

Mul ==
    /\ Idle
    /\ Size(x) <= MaxOperand
    /\ \E other \in Base :
        /\ last' = [op |-> "mul", self |-> x, other |-> other, res |-> __mul__(x, other)]
        /\ x' = After(last'.res)
    /\ UNCHANGED <<objs, threads>>

Zip ==
    /\ Idle
    /\ \E samples \in {<<x>>} \cup {<<x, b>> : b \in {c \in Base : Size(x) <= MaxOperand}} :
        /\ last' = [op |-> "zip", samples |-> samples, res |-> Sample_zip(samples)]
        /\ x' = After(last'.res)
    /\ UNCHANGED <<objs, threads>>

Subset ==
    /\ Idle
    /\ \E mask \in [1..x.npoints -> BOOLEAN] :
        /\ last' = [op |-> "subset", self |-> x, mask |-> mask, res |-> subset(x, mask)]
        /\ x' = After(last'.res)
    /\ UNCHANGED <<objs, threads>>

\* The caller hands take_elements an integer index array.
TakeElements ==
    /\ Idle
    /\ \E n \in 0..MaxTake : \E indices \in [1..n -> (-1)..x.nelems] :
        /\ last' = [op |-> "take_elements", self |-> x, indices |-> indices, res |-> take_elements(x, indices, "int64")]
        /\ x' = After(last'.res)
    /\ UNCHANGED <<objs, threads>>

GetIndex ==
    /\ Idle
    /\ \E ielem \in (-(x.nelems + 2))..(x.nelems + 1) :
        /\ x' = x
        /\ last' = [op |-> "getindex", self |-> x, ielem |-> ielem, res |-> getindex(x, ielem)]
    /\ UNCHANGED <<objs, threads>>

\* The tri property is read.
Tri ==
    /\ Idle
    /\ x' = x
    /\ last' = [op |-> "tri", self |-> x, res |-> tri(x)]
    /\ UNCHANGED <<objs, threads>>

Basis ==
    /\ Idle
    /\ \E interpolation \in Interpolations :
        /\ x' = x
        /\ last' = [op |-> "basis", self |-> x, interpolation |-> interpolation,
                    res |-> basis(x, interpolation)]
    /\ UNCHANGED <<objs, threads>>

\* The point axes of the arguments a basis is lowered with.
PointsShapes == UNION {[1..rank -> {MaxPts}] : rank \in 1..MaxPointAxes}

\* The basis of the sample is lowered with coordinates of some alignment.
LowerBasis ==
    /\ Idle
    /\ x.tag \in {"DefaultIndex", "CustomIndex"}
    /\ \E points_shape \in PointsShapes : \E where \in Wheres(Len(points_shape)) :
        /\ x' = x
        /\ last' = [op |-> "lower", self |-> x, points_shape |-> points_shape,
                    where |-> where, res |-> Basis_lower_axes(x, points_shape, where)]
    /\ UNCHANGED <<objs, threads>>

\* The arrays asfunction is given: one value per point, all different.
Arrays(n) == {[g \in 1..n |-> 2 ^ (g - 1)], [g \in 1..n |-> 3 * (n - g) + 1]}

\* The functions a sample is evaluated on: the coordinates, its own basis and
\* the functions asfunction makes of an array.
Functions(s) ==
    {[node |-> "coords", shape |-> <<>>]}
    \cup {b.val : b \in {c \in {basis(s, i) : i \in Interpolations} : c.err = "none"}}
    \cup {a.val : a \in {c \in {asfunction(s, array, "none") : array \in Arrays(s.npoints)} :
                             c.err = "none"}}

\* The functions a sample is integrated: the function "value", its own basis
\* and the functions asfunction makes of an array.
IntegralFunctions(s) ==
    {[node |-> "value", shape |-> <<>>]} \cup {f \in Functions(s) : f.node # "coords"}

\* The integral of a function over the sample is built and evaluated.
Integral ==
    /\ Idle
    /\ \E func \in IntegralFunctions(x) :
        /\ x' = x
        /\ last' = [op |-> "integral", self |-> x, func |-> func,
                    res |-> lower(integral(x, func), {})]
    /\ UNCHANGED <<objs, threads>>

\* The arguments of an entry point on the sample: one function, a sequence
\* of one, or a sequence of two of which the second is the coordinates.
Args(s) ==
    {[multiple |-> m, funcs |-> <<f>>] : m \in BOOLEAN, f \in Functions(s)}
    \cup {[multiple |-> TRUE, funcs |-> <<f, [node |-> "coords", shape |-> <<>>]>>] :
             f \in Functions(s)}

\* The values of an argument: an array, or a mapping with its items.
AnArray == [type |-> "array", v |-> <<>>]

AMapping(d) == [type |-> "mapping", v |-> d]

\* The keyword arguments of an evaluation: none, the array lhs, and the same
\* nested under the name "arguments".
EvalKwargs ==
    LET d == [k \in {"lhs"} |-> AnArray]
    IN {<<>>, d, [k \in {"arguments"} |-> AMapping(d)], [k \in {"arguments"} |-> AMapping(<<>>)]}

\* The record of a call of eval: func and res are the first function and its
\* array, out is what the call was handed and returned.
EvalCalled(arg, arguments, res, out) ==
    [op |-> "eval", self |-> x, func |-> arg.funcs[1], res |-> res, arg |-> arg,
     funcs |-> out.funcs, arguments |-> arguments, engine |-> out.engine, ret |-> out.ret]

\* The record of a call of eval_sparse.
EvalSparseCalled(arg, arguments, out) ==
    [op |-> "eval_sparse", self |-> x, arg |-> arg, funcs |-> out.funcs,
     arguments |-> arguments, engine |-> out.engine, ret |-> out.ret]

Eval ==
    /\ Idle
    /\ \E arg \in Args(x) : \E arguments \in EvalKwargs :
        /\ x' = x
        /\ last' = EvalCalled(arg, arguments, eval(x, arg.funcs[1]),
                              Sample_eval(x, arg, arguments))
    /\ UNCHANGED <<objs, threads>>

\* eval_sparse is handed its arguments by position: a flat mapping.
EvalSparse ==
    /\ Idle
    /\ \E arg \in Args(x) : \E arguments \in {<<>>, [k \in {"lhs"} |-> AnArray]} :
        /\ x' = x
        /\ last' = EvalSparseCalled(arg, arguments, Sample_eval_sparse(x, arg, arguments))
    /\ UNCHANGED <<objs, threads>>

\* The sparse data of an integrand of the given rank: every axis of length
\* MaxAxis, at most MaxEntries entries with values in -1..1.
SparseData(rank) ==
    LET shape == [i \in 1..rank |-> MaxAxis]
        Entry == [index : Indices(shape), value : (-1)..1]
    IN {[shape |-> shape, entries |-> entries] :
           entries \in UNION {[1..n -> Entry] : n \in 0..MaxEntries}}

\* The integrands a call is given: one of any rank up to MaxRank, or one of
\* at most one entry followed by a scalar with a single entry.
Integrands ==
    LET All == UNION {SparseData(rank) : rank \in 0..MaxRank}
    IN {<<d>> : d \in All}
       \cup {<<d, e>> : d \in {c \in All : Len(c.entries) <= 1},
                        e \in {c \in SparseData(0) : Len(c.entries) = 1}}

\* The scales of the integrands: 1 for a plain function, the reference
\* quantity for a function with a unit.
Scales == {1, 2}

\* The argument names of a call.
Keys == {"arguments", "lhs"}

\* The flat mappings of argument names to arrays.
ArrayMappings ==
    UNION {[K -> {AnArray}] : K \in SUBSET Keys}

\* The keyword arguments util.positional_only collects into the last
\* parameter of integrate: every name is given an array or a flat mapping.
Kwargs ==
    UNION {[K -> {AnArray}
                 \cup {AMapping(d) : d \in ArrayMappings}] :
           K \in SUBSET Keys}

\* The calls of integrate: one integrand or a sequence of integrands.
IntegrateArgs ==
    {[multiple |-> TRUE, funcs |-> datas] : datas \in Integrands}
    \cup {[multiple |-> FALSE, funcs |-> datas] : datas \in {d \in Integrands : Len(d) = 1}}

Integrate ==
    /\ Idle
    /\ \E arg \in IntegrateArgs : \E scale \in Scales : \E arguments \in Kwargs :
        LET datas == arg.funcs
            funcscales == [i \in 1..Len(datas) |-> IF i = 1 THEN scale ELSE 1]
            out == integrate(datas, funcscales, arguments)
            call == Sample_integrate(arg, funcscales, arguments)
        IN /\ x' = x
           /\ last' = [op |-> "integrate", datas |-> datas, funcscales |-> funcscales,
                       arguments |-> arguments, engine |-> out.engine, res |-> out.res,
                       arg |-> arg, funcs |-> call.funcs, ret |-> call.ret]
    /\ UNCHANGED <<objs, threads>>

\* integrate_sparse is handed its arguments by position: a flat mapping.
IntegrateSparse ==
    /\ Idle
    /\ \E arg \in IntegrateArgs : \E arguments \in {<<>>, [k \in {"lhs"} |-> AnArray]} :
        LET out == Sample_integrate_sparse(arg, arguments)
        IN /\ x' = x
           /\ last' = [op |-> "integrate_sparse", datas |-> arg.funcs, arg |-> arg,
                       funcs |-> out.funcs, arguments |-> arguments,
                       engine |-> out.engine, ret |-> out.ret]
    /\ UNCHANGED <<objs, threads>>

EvalIntegrals ==
    /\ Idle
    /\ \E datas \in Integrands : \E arguments \in Kwargs :
        LET out == eval_integrals(datas, arguments)
        IN /\ x' = x
           /\ last' = [op |-> "eval_integrals", datas |-> datas,
                       funcscales |-> [i \in 1..Len(datas) |-> 1],
                       arguments |-> arguments, engine |-> out.engine, res |-> out.res]
    /\ UNCHANGED <<objs, threads>>

Next ==
    \/ Return \/ New \/ Add \/ Mul \/ Zip \/ Subset \/ TakeElements \/ GetIndex \/ Tri \/ Basis
    \/ LowerBasis \/ Eval \/ EvalSparse \/ Integral

Spec == Init /\ [][Next]_vars

\* The calls that integrate: they do not look at the sample at hand.
NextIntegrals == Return \/ Integrate \/ IntegrateSparse \/ EvalIntegrals

SpecIntegrals == Init /\ [][NextIntegrals]_vars

----------------------------------------------------------------------------
\* The sample objects.  A Sample is a types.Singleton: constructing a sample
\* that exists gives the existing object.  An object holds the attributes its
\* constructor assigns (sample) and what the cached property offsets of a
\* default-indexed leaf holds (memo); count is the number of times offsets
\* has been computed and overlapped whether two threads have been computing
\* it at the same time.

NewObject(s) ==
    [sample |-> s, memo |-> [set |-> FALSE, val |-> <<>>], count |-> 0, overlapped |-> FALSE]

Construct_overwrite(heap, res) ==
    IF res.err # "none" \/ ~Keep(res.val) THEN heap
    ELSE IF Len(heap) = 0 THEN <<NewObject(res.val)>>
    ELSE [heap EXCEPT ![1] = NewObject(res.val)]

\* Sample.__init__ at the end of a call: the returned sample is an object that
\* exists or a new object; no attribute of another object is assigned.
Construct(heap, res) ==
    IF \/ res.err # "none"
       \/ ~Keep(res.val)
       \/ \E id \in 1..Len(heap) : heap[id].sample = res.val
       \/ Len(heap) >= MaxObjs
    THEN heap
    ELSE Append(heap, NewObject(res.val))

\* The default-indexed leaves a sample is built on.
LeavesOf(s) ==
    CASE s.tag = "DefaultIndex" -> {s}
      [] s.tag = "CustomIndex" -> {s.parent}
      [] s.tag \in {"Add", "Mul"} -> LeavesOf(s.sample1) \cup LeavesOf(s.sample2)
      [] s.tag = "Zip" -> UNION {LeavesOf(s.samples[i]) : i \in 1..Len(s.samples)}
      [] s.tag = "TakeElements" -> LeavesOf(s.parent)
      [] OTHER -> {}

\* A read of the cached property offsets of every object in ids by the one
\* thread that makes a call: computed and stored where nothing is stored.
Fill(heap, ids) ==
    [id \in 1..Len(heap) |->
        IF id \in ids /\ ~heap[id].memo.set
        THEN [heap[id] EXCEPT !.memo = [set |-> TRUE, val |-> offsets(heap[id].sample)],
                              !.count = @ + 1]
        ELSE heap[id]]

\* The objects whose offsets a call on the given samples may read: the
\* leaves the samples are built on.  A call reads none, some or all of them.
Readable(heap, samples) ==
    {id \in 1..Len(heap) : \E s \in samples : heap[id].sample \in LeavesOf(s)}

\* _DefaultIndex.getindex on the object: the offsets are the stored ones if
\* there are any.
Object_getindex(o, ielem) ==
    IF o.sample.tag # "DefaultIndex" THEN getindex(o.sample, ielem)
    ELSE IF ~(0 <= ielem /\ ielem < o.sample.nelems) THEN Raise("IndexError")
    ELSE LET off == IF o.memo.set THEN o.memo.val ELSE offsets(o.sample)
         IN Ok(arange(PySlice(off, ielem, ielem + 2)[1], PySlice(off, ielem, ielem + 2)[2]))

\* The samples new objects are made of: the leaves over X of one element of
\* two points and of two elements of one and two points, the reindexed leaf of
\* one element, the empty sample and the one-point leaf over Y.
HeapBase ==
    {s \in Leaves : s.spaces = <<"X">> /\ s.nelems >= 1 /\ s.points[s.nelems].npoints = 2
                    /\ s.points[1].npoints = 3 - s.nelems}
    \cup {s \in Reindexed : s.spaces = <<"X">> /\ s.nelems = 1}
    \cup {s \in Leaves : s.spaces = <<"Y">> /\ s.nelems = 1 /\ s.npoints = 1}
    \cup {Sample_empty(<<"X">>, 1)}

\* A call is made when no thread is reading a cached property.
Quiet == Idle /\ \A t \in 1..MaxThreads : threads[t].pc = "idle"

\* A call that returns res and reads the offsets of the objects in ids.  add
\* and multiply read no offsets; zip, subset, take_elements and an evaluation
\* call getindex of their operands.
Called(res, ids) ==
    /\ objs' = Fill(Construct(objs, res), ids)
    /\ UNCHANGED <<x, last, threads>>

ObjNew ==
    /\ Quiet
    /\ \E s \in HeapBase : Called(Ok(s), {})

ObjAdd ==
    /\ Quiet
    /\ \E a \in 1..Len(objs) : \E b \in 1..Len(objs) :
        /\ Size(objs[a].sample) <= MaxOperand
        /\ Size(objs[b].sample) <= MaxOperand
        /\ Called(__add__(objs[a].sample, objs[b].sample), {})

ObjMul ==
    /\ Quiet
    /\ \E a \in 1..Len(objs) : \E b \in 1..Len(objs) :
        /\ Size(objs[a].sample) <= MaxOperand
        /\ Size(objs[b].sample) <= MaxOperand
        /\ Called(__mul__(objs[a].sample, objs[b].sample), {})

ObjZip ==
    /\ Quiet
    /\ \E a \in 1..Len(objs) : \E b \in 1..Len(objs) :
        /\ Size(objs[a].sample) <= MaxOperand
        /\ Size(objs[b].sample) <= MaxOperand
        /\ \E ids \in SUBSET Readable(objs, {objs[a].sample, objs[b].sample}) :
              Called(Sample_zip(<<objs[a].sample, objs[b].sample>>), ids)

ObjSubset ==
    /\ Quiet
    /\ \E a \in 1..Len(objs) : \E mask \in [1..objs[a].sample.npoints -> BOOLEAN] :
        \E ids \in SUBSET Readable(objs, {objs[a].sample}) :
            Called(subset(objs[a].sample, mask), ids)

ObjTakeElements ==
    /\ Quiet
    /\ \E a \in 1..Len(objs) : \E n \in 0..MaxTake :
        \E indices \in [1..n -> (-1)..objs[a].sample.nelems] :
            \E ids \in SUBSET Readable(objs, {objs[a].sample}) :
                Called(take_elements(objs[a].sample, indices, "int64"), ids)

\* basis, integral and eval return no sample.
ObjEval ==
    /\ Quiet
    /\ \E a \in 1..Len(objs) : \E ids \in SUBSET Readable(objs, {objs[a].sample}) :
        /\ ids # {}
        /\ Called(Raise("none returned"), ids)

\* cached_property.__get__, the lookup: a thread reads offsets of a leaf and
\* returns the stored value, or finds nothing stored.
Lookup ==
    /\ Idle
    /\ \E t \in 1..MaxThreads : \E id \in 1..Len(objs) :
        /\ threads[t].pc = "idle"
        /\ objs[id].sample.tag = "DefaultIndex"
        /\ IF objs[id].memo.set
           THEN /\ threads' = [threads EXCEPT ![t] = [pc |-> "idle", id |-> id, val |-> <<>>,
                                                      got |-> <<objs[id].memo.val>>]]
                /\ objs' = objs
           ELSE /\ threads' = [threads EXCEPT ![t] = [pc |-> "compute", id |-> id, val |-> <<>>,
                                                      got |-> <<>>]]
                /\ objs' = [objs EXCEPT ![id].overlapped =
                               @ \/ \E u \in 1..MaxThreads : u # t /\ threads[u].pc # "idle"
                                                             /\ threads[u].id = id]
    /\ UNCHANGED <<x, last>>

\* cached_property.__get__, the call of the wrapped method.
Compute ==
    /\ \E t \in 1..MaxThreads :
        /\ threads[t].pc = "compute"
        /\ threads' = [threads EXCEPT ![t].pc = "store",
                                      ![t].val = offsets(objs[threads[t].id].sample)]
        /\ objs' = [objs EXCEPT ![threads[t].id].count = @ + 1]
    /\ UNCHANGED <<x, last>>

\* cached_property.__get__, the value is stored and returned.
Store ==
    /\ \E t \in 1..MaxThreads :
        /\ threads[t].pc = "store"
        /\ threads' = [threads EXCEPT ![t] = [pc |-> "idle", id |-> threads[t].id, val |-> <<>>,
                                              got |-> <<threads[t].val>>]]
        /\ objs' = [objs EXCEPT ![threads[t].id].memo = [set |-> TRUE, val |-> threads[t].val]]
    /\ UNCHANGED <<x, last>>

NextObjects ==
    \/ ObjNew \/ ObjEval \/ ObjAdd \/ ObjMul \/ ObjZip \/ ObjSubset \/ ObjTakeElements
    \/ Lookup \/ Compute \/ Store

SpecObjects == Init /\ [][NextObjects]_vars

----------------------------------------------------------------------------
\* Properties.

\* The sample the last call returned, if it returned one.
Returned ==
    IF last.op \in {"new", "add", "mul", "zip", "subset", "take_elements"} /\ last.res.err = "none"
    THEN {last.res.val} ELSE {}

\* Whether a reindexed leaf occurs in a sample.
HasCustomIndex(s) ==
    CASE s.tag = "CustomIndex" -> TRUE
      [] s.tag \in {"Add", "Mul"} -> HasCustomIndex(s.sample1) \/ HasCustomIndex(s.sample2)
      [] s.tag = "Zip" -> \E i \in 1..Len(s.samples) : HasCustomIndex(s.samples[i])
      [] s.tag = "TakeElements" -> HasCustomIndex(s.parent)
      [] OTHER -> FALSE

\* The index lists of the elements of s partition 0..npoints-1.
IsPartition(s) ==
    LET idx == [e \in 0..(s.nelems - 1) |-> getindex(s, e)]
    IN /\ \A e \in 0..(s.nelems - 1) :
            /\ idx[e].err = "none"
            /\ \A k \in 1..Len(idx[e].val) : 0 <= idx[e].val[k] /\ idx[e].val[k] < s.npoints
       /\ \A e, f \in 0..(s.nelems - 1) :
            e # f => \A k \in 1..Len(idx[e].val) : \A j \in 1..Len(idx[f].val) :
                         idx[e].val[k] # idx[f].val[j]
       /\ SumSeq([q \in 1..s.nelems |-> Len(idx[q - 1].val)]) = s.npoints

\* C1: for every sample built from default-indexed leaves by add, multiply,
\* zip, subset and take_elements, the lists getindex(e), e in 0..nelems-1, are
\* pairwise disjoint, lie in [0, npoints) and have lengths that sum to npoints.
C1_IndexPartition ==
    \A s \in {x} \cup Returned : ~HasCustomIndex(s) => IsPartition(s)

\* A product of four elements, whose index lists interleave, was built.
W1_ProductPartition ==
    /\ last.op = "mul" /\ last.res.err = "none"
    /\ last.res.val.nelems = 4 /\ last.res.val.npoints = 4
    /\ ~HasCustomIndex(last.res.val)
    /\ IsPartition(last.res.val)

\* C2: for every variant, getindex(ielem) with ielem < 0 or ielem >= nelems
\* raises an IndexError: it returns no index list and fails with no other
\* kind of error.
C2_OutOfRangeIsIndexError ==
    (last.op = "getindex" /\ (last.ielem < 0 \/ last.ielem >= last.self.nelems))
        => last.res.err = "IndexError"

\* C3: add(a, b) on samples whose spaces differ raises a ValueError, whatever
\* the point counts of a and b.
C3_AddSpacesMismatch ==
    (last.op = "add" /\ last.self.spaces # last.other.spaces)
        => last.res.err = "ValueError"

\* add was called on samples of different spaces, one of them without points.
W3_AddMismatchZeroPoints ==
    /\ last.op = "add" /\ last.self.spaces # last.other.spaces
    /\ last.other.npoints = 0 /\ last.self.npoints > 0
    /\ last.res.err = "ValueError"

\* C4 as stated: for samples a and b of identical spaces, operands with zero
\* points included, add(a,b).nelems = a.nelems + b.nelems and
\* add(a,b).npoints = a.npoints + b.npoints.
X4_AddCountsAdditive ==
    (last.op = "add" /\ last.self.spaces = last.other.spaces)
        => /\ last.res.err = "none"
           /\ last.res.val.nelems = last.self.nelems + last.other.nelems
           /\ last.res.val.npoints = last.self.npoints + last.other.npoints

\* C4 amended: the point counts always add up; the element counts add up
\* except that an operand without points is dropped with its elements (b when
\* b.npoints = 0, otherwise a when a.npoints = 0).
C4_AddCounts ==
    (last.op = "add" /\ last.self.spaces = last.other.spaces)
        => /\ last.res.err = "none"
           /\ last.res.val.npoints = last.self.npoints + last.other.npoints
           /\ last.res.val.nelems =
                 IF last.other.npoints = 0 THEN last.self.nelems
                 ELSE IF last.self.npoints = 0 THEN last.other.nelems
                 ELSE last.self.nelems + last.other.nelems

\* add dropped an operand that has elements but no points.
W4_AddDropsElements ==
    /\ last.op = "add" /\ last.res.err = "none"
    /\ last.self.npoints > 0 /\ last.other.npoints = 0 /\ last.other.nelems > 0
    /\ last.res.val.nelems = last.self.nelems

\* C5 as stated: add(a, b) returns a itself when b.npoints = 0 and b itself
\* when a.npoints = 0; a Sum is built only when both operands have points.
X5_AddIdentity ==
    (last.op = "add" /\ last.self.spaces = last.other.spaces)
        => /\ last.res.err = "none"
           /\ last.other.npoints = 0 => last.res.val = last.self
           /\ last.self.npoints = 0 => last.res.val = last.other
           /\ last.res.val.tag = "Add" => (last.self.npoints >= 1 /\ last.other.npoints >= 1)

\* C5 amended: add(a, b) returns a itself when b.npoints = 0, and b itself
\* when a.npoints = 0 and b.npoints > 0; otherwise it builds the Sum of a, b.
C5_AddIdentity ==
    (last.op = "add" /\ last.self.spaces = last.other.spaces)
        => /\ last.res.err = "none"
           /\ last.other.npoints = 0 => last.res.val = last.self
           /\ (last.self.npoints = 0 /\ last.other.npoints > 0) => last.res.val = last.other
           /\ (last.self.npoints >= 1 /\ last.other.npoints >= 1)
                 => /\ last.res.val.tag = "Add"
                    /\ last.res.val.sample1 = last.self
                    /\ last.res.val.sample2 = last.other

\* add was called on two different samples without points and returned the
\* first.
W5_AddBothWithoutPoints ==
    /\ last.op = "add" /\ last.res.err = "none"
    /\ last.self.npoints = 0 /\ last.other.npoints = 0
    /\ last.self # last.other
    /\ last.res.val = last.self

\* The set of the space names of a sample.
SpaceSet(s) == {s.spaces[k] : k \in 1..Len(s.spaces)}

\* C6: multiply(a, b) raises a ValueError when a and b share a space name, and
\* otherwise returns a Product whose spaces are the concatenation and whose
\* ndims is the sum of the factors'.
C6_MulSpaces ==
    last.op = "mul"
        => IF SpaceSet(last.self) \cap SpaceSet(last.other) # {}
           THEN last.res.err = "ValueError"
           ELSE /\ last.res.err = "none"
                /\ last.res.val.tag = "Mul"
                /\ last.res.val.spaces = last.self.spaces \o last.other.spaces
                /\ last.res.val.ndims = last.self.ndims + last.other.ndims

\* multiply was called on two samples with points over the same space.
W6_MulCommonSpace ==
    /\ last.op = "mul" /\ last.self.spaces = last.other.spaces
    /\ last.self.npoints > 0 /\ last.other.npoints > 0
    /\ last.res.err = "ValueError"

\* C7: for a Product a*b, nelems = a.nelems * b.nelems, npoints = a.npoints *
\* b.npoints, and getindex(e) for (e1, e2) = divmod(e, b.nelems) lists, row
\* by row over (i, j), a.getindex(e1)[i] * b.npoints + b.getindex(e2)[j].
C7_ProductIndex ==
    (last.op = "mul" /\ last.res.err = "none")
        => LET a == last.self
               b == last.other
               p == last.res.val
           IN /\ p.nelems = a.nelems * b.nelems
              /\ p.npoints = a.npoints * b.npoints
              /\ \A e1 \in 0..(a.nelems - 1) : \A e2 \in 0..(b.nelems - 1) :
                    LET ia == getindex(a, e1).val
                        ib == getindex(b, e2).val
                        ip == getindex(p, e1 * b.nelems + e2)
                    IN /\ ip.err = "none"
                       /\ Len(ip.val) = Len(ia) * Len(ib)
                       /\ \A i \in 1..Len(ia) : \A j \in 1..Len(ib) :
                             ip.val[(i - 1) * Len(ib) + j] = ia[i] * b.npoints + ib[j]

\* A product of two one-element samples of two points each was built; its
\* local pair (0, 1) has the global index 1.
W7_ProductTwoByTwo ==
    /\ last.op = "mul" /\ last.res.err = "none"
    /\ last.self.nelems = 1 /\ last.other.nelems = 1
    /\ last.self.npoints = 2 /\ last.other.npoints = 2
    /\ last.res.val.npoints = 4
    /\ getindex(last.res.val, 0).val[2] = 1

\* Element k of sample r has as many points and the same local triangulation
\* as element e of sample s.
SameElement(r, k, s, e) ==
    /\ getindex(r, k).err = "none"
    /\ Len(getindex(r, k).val) = Len(getindex(s, e).val)
    /\ get_element_tri(r, k) = get_element_tri(s, e)

\* C8: for every variant s and every non-empty list I of valid element
\* indices, in any order, s.take_elements(I) has Len(I) elements and its k-th
\* element is element I[k] of s.
X8_TakeElementsListedOrder ==
    (/\ last.op = "take_elements"
     /\ Len(last.indices) > 0
     /\ \A k \in 1..Len(last.indices) :
            0 <= last.indices[k] /\ last.indices[k] < last.self.nelems)
        => /\ last.res.err = "none"
           /\ last.res.val.nelems = Len(last.indices)
           /\ \A k \in 1..Len(last.indices) :
                 SameElement(last.res.val, k - 1, last.self, last.indices[k])

Marked(s, mask) ==
    SortedSeq({e \in 0..(s.nelems - 1) :
                  \E k \in 1..Len(getindex(s, e).val) : mask[getindex(s, e).val[k] + 1]})

CountTrue(mask) == Cardinality({q \in 1..Len(mask) : mask[q]})

\* C10: for any sample s and any boolean mask m over its points, subset(s, m)
\* holds every element of s with a point marked in m, all of its points
\* included, holds no element whose points are all unmarked, and has at least
\* as many points as m marks.
X10_SubsetKeepsMarkedElements ==
    last.op = "subset"
        => /\ last.res.err = "none"
           /\ last.res.val.nelems = Len(Marked(last.self, last.mask))
           /\ \A k \in 1..Len(Marked(last.self, last.mask)) :
                 SameElement(last.res.val, k - 1, last.self, Marked(last.self, last.mask)[k])
           /\ last.res.val.npoints >= CountTrue(last.mask)

\* The points subset retains: the pairs <<j, k>> of an element j of the result
\* and a local position k in it, which stand for point k of element
\* Marked[j] of the original sample.
Retained(r) ==
    {jk \in (1..r.nelems) \X (1..r.npoints) : jk[2] <= Len(getindex(r, jk[1] - 1).val)}

\* C11: subset preserves the point order, reindexed and zipped samples
\* included: of any two retained points, the one with the smaller global
\* index in s has the smaller global index in subset(s, m).
X11_SubsetKeepsPointOrder ==
    (last.op = "subset" /\ last.res.err = "none")
        => \A p, q \in Retained(last.res.val) :
              LET sel == Marked(last.self, last.mask)
              IN getindex(last.self, sel[p[1]]).val[p[2]] < getindex(last.self, sel[q[1]]).val[q[2]]
                    => getindex(last.res.val, p[1] - 1).val[p[2]]
                          < getindex(last.res.val, q[1] - 1).val[q[2]]

\* Two of the samples share a space name.
SharesSpace(samples) ==
    \E i, j \in 1..Len(samples) :
        i < j /\ SpaceSet(samples[i]) \cap SpaceSet(samples[j]) # {}

\* C12: zip raises ValueError, and so constructs no sample, when the samples
\* do not all have the same npoints or when two of them share a space name.
C12_ZipMismatch ==
    (/\ last.op = "zip"
     /\ \/ \E i \in 1..Len(last.samples) : last.samples[i].npoints # last.samples[1].npoints
        \/ SharesSpace(last.samples))
        => last.res.err = "ValueError"

\* zip was called on two samples of equal npoints > 0 that share a space.
W12_ZipSharedSpace ==
    /\ last.op = "zip" /\ Len(last.samples) = 2
    /\ last.samples[1].npoints = last.samples[2].npoints
    /\ last.samples[1].npoints > 0
    /\ SharesSpace(last.samples)
    /\ last.res.err = "ValueError"

\* The elements of sample s that hold the point with global index p.
Owners(s, p) ==
    {e \in 0..(s.nelems - 1) :
        \E k \in 1..Len(getindex(s, e).val) : getindex(s, e).val[k] = p}

\* C13: for samples of equal npoints and pairwise disjoint spaces the zipped
\* sample has that npoints, every point lies in exactly one zipped element,
\* two points lie in the same zipped element exactly when they lie in the same
\* element of every constituent, and nelems is the number of distinct tuples
\* of constituent elements.
C13_ZipRefinement ==
    (/\ last.op = "zip"
     /\ \A i \in 1..Len(last.samples) : last.samples[i].npoints = last.samples[1].npoints
     /\ ~SharesSpace(last.samples))
        => /\ last.res.err = "none"
           /\ last.res.val.npoints = last.samples[1].npoints
           /\ LET r == last.res.val
                  P == 0..(r.npoints - 1)
                  tuple(p) == [i \in 1..Len(last.samples) |-> Owners(last.samples[i], p)]
              IN /\ \A e \in 0..(r.nelems - 1) : getindex(r, e).err = "none"
                 /\ \A p \in P : Cardinality(Owners(r, p)) = 1
                 /\ \A p, q \in P : (Owners(r, p) = Owners(r, q)) <=> (tuple(p) = tuple(q))
                 /\ r.nelems = Cardinality({tuple(p) : p \in P})

\* Two samples were zipped into more elements than either of them has.
W13_ZipFinerThanBoth ==
    /\ last.op = "zip" /\ Len(last.samples) = 2 /\ last.res.err = "none"
    /\ last.res.val.nelems > last.samples[1].nelems
    /\ last.res.val.nelems > last.samples[2].nelems
    /\ last.res.val.npoints = 3

RECURSIVE PointWeight(_, _, _)
RECURSIVE PointAt(_, _)
RECURSIVE LeafOrProduct(_)
\* The weight sample s gives the point at position k (from 0) of its element
\* e: the datum of the leaf the point comes from, the product of the factors'
\* weights for a Product, the part's weight for a Sum, and for a zipped
\* sample the weight of that point in its first constituent.
PointWeight(s, e, k) ==
    CASE s.tag \in {"DefaultIndex", "CustomIndex"} ->
            [space |-> s.space, transform |-> s.transforms[e + 1], point |-> k]
      [] s.tag = "Add" ->
            IF e < s.sample1.nelems THEN PointWeight(s.sample1, e, k)
            ELSE PointWeight(s.sample2, e - s.sample1.nelems, k)
      [] s.tag = "Mul" ->
            LET n2 == Len(getindex(s.sample2, e % s.sample2.nelems).val)
            IN [times |-> <<PointWeight(s.sample1, e \div s.sample2.nelems, k \div n2),
                            PointWeight(s.sample2, e % s.sample2.nelems, k % n2)>>]
      [] s.tag = "TakeElements" -> PointWeight(s.parent, s.indices[e + 1], k)
      [] s.tag = "Zip" ->
            LET p == getindex(s, e).val[k + 1]
                e0 == CHOOSE f \in Owners(s.samples[1], p) : TRUE
                ind == getindex(s.samples[1], e0).val
            IN PointWeight(s.samples[1], e0, (CHOOSE j \in 1..Len(ind) : ind[j] = p) - 1)

\* C14: the weight a zipped sample gives a point is the weight its first
\* constituent gives that point, found through the point's element and local
\* position in the first constituent; no later constituent's weight enters.
X14_ZipWeightsOfFirst ==
    (last.op = "zip" /\ last.res.err = "none")
        => \A e \in 0..(last.res.val.nelems - 1) :
              /\ get_evaluable_weights(last.res.val, e).err = "none"
              /\ \A k \in 1..Len(getindex(last.res.val, e).val) :
                    get_evaluable_weights(last.res.val, e).val[k] = PointWeight(last.res.val, e, k - 1)

\* The rows of element e's local triangulation mapped through getindex(e).
MappedRows(s, e) ==
    IF getindex(s, e).err # "none" \/ get_element_tri(s, e).err # "none" THEN {}
    ELSE LET m == take_table(getindex(s, e).val, get_element_tri(s, e).val)
         IN IF m.err # "none" THEN {} ELSE {m.val[r] : r \in 1..Len(m.val)}

\* The simplices of a table: the vertex sets of its rows.
Simplices(table) == {{table[r][c] : c \in 1..Len(table[r])} : r \in 1..Len(table)}

\* C15 (interior triangulation): for every variant tri is defined, its rows
\* have ndims+1 entries, every entry is a global point index in [0, npoints),
\* every row is a row of some element's local triangulation mapped through
\* getindex, and for a Product with a 1-D first factor and for a reindexed
\* sample the closed form holds the simplices of the element-wise table.
X15_TriDefinedAndMapped ==
    last.op = "tri"
        => /\ last.res.err = "none"
           /\ \A r \in 1..Len(last.res.val) :
                 /\ Len(last.res.val[r]) = last.self.ndims + 1
                 /\ \A c \in 1..Len(last.res.val[r]) :
                       0 <= last.res.val[r][c] /\ last.res.val[r][c] < last.self.npoints
                 /\ \E e \in 0..(last.self.nelems - 1) : last.res.val[r] \in MappedRows(last.self, e)
           /\ (last.self.tag = "CustomIndex" \/ (last.self.tag = "Mul" /\ last.self.sample1.ndims = 1))
                 => /\ Sample_tri(last.self).err = "none"
                    /\ Simplices(last.res.val) = Simplices(Sample_tri(last.self).val)

\* C16: for every variant, basis(interpolation) raises ValueError and returns
\* no node when interpolation is neither "none" nor "nearest", and returns a
\* node of shape (npoints,) when it is one of them.
X16_BasisInterpolation ==
    last.op = "basis"
        => IF last.interpolation \notin {"none", "nearest"}
           THEN last.res.err = "ValueError"
           ELSE last.res.err = "none" /\ last.res.val.shape = <<last.self.npoints>>

\* The samples C17 is about: leaves, reindexed leaves and their products.
LeafOrProduct(s) ==
    \/ s.tag \in {"DefaultIndex", "CustomIndex"}
    \/ s.tag = "Mul" /\ LeafOrProduct(s.sample1) /\ LeafOrProduct(s.sample2)

PointAt(s, g) ==
    CASE s.tag \in {"DefaultIndex", "CustomIndex"} ->
           LET ek == CHOOSE ek \in {<<e, k>> \in (1..s.nelems) \X (1..MaxPts) :
                                       k <= Len(getindex(s, e - 1).val)} :
                         getindex(s, ek[1] - 1).val[ek[2]] = g
           IN {[space |-> s.space, transform |-> s.transforms[ek[1]], point |-> ek[2] - 1,
                of |-> s.points[ek[1]].npoints]}
      [] s.tag = "Add" -> IF g < s.sample1.npoints THEN PointAt(s.sample1, g)
                          ELSE PointAt(s.sample2, g - s.sample1.npoints)
      [] s.tag = "Mul" -> PointAt(s.sample1, g \div s.sample2.npoints)
                          \cup PointAt(s.sample2, g % s.sample2.npoints)
      [] s.tag = "Zip" -> UNION {PointAt(s.samples[i], g) : i \in 1..Len(s.samples)}
      [] s.tag = "TakeElements" ->
           LET ek == CHOOSE ek \in {<<e, k>> \in (1..s.nelems) \X (1..MaxNPoints) :
                                       k <= Len(getindex(s, e - 1).val)} :
                         getindex(s, ek[1] - 1).val[ek[2]] = g
           IN PointAt(s.parent, getindex(s.parent, s.indices[ek[1]]).val[ek[2]])

\* C18: evaluating a function on a sample, of whatever variant, gives one row
\* per point, and row g holds the function at the point of global index g.
X18_EvalRowIsPointOfIndex ==
    (last.op = "eval" /\ last.func.node = "coords")
    => /\ last.res.err = "none"
       /\ Len(last.res.val) = last.self.npoints
       /\ \A g \in 0..(last.self.npoints - 1) : last.res.val[g + 1] = PointAt(last.self, g)


\* Whether a converted result holds the data: at every index the sum of the
\* data's values there, times the scale.
HoldsData(result, data, scale) ==
    /\ result.shape = data.shape
    /\ \A idx \in Indices(data.shape) :
          scale * ValueAt(data.entries, idx)
          = IF result.kind = "sparse" THEN ValueAt(result.entries, idx) ELSE result.dense[idx]

\* C19: integrate and eval_integrals return one result per integrand, in the
\* integrands' order, converted by rank: a dense array for rank 0 and 1, a
\* matrix object for rank 2, and for rank 3 and up the sparse table with one
\* entry per index, in index order, and no zero entry.
X19_ConvertedByRank ==
    last.op \in {"integrate", "eval_integrals"}
    => /\ last.res.err = "none"
       /\ Len(last.res.val) = Len(last.datas)
       /\ \A i \in 1..Len(last.datas) :
             LET result == last.res.val[i]
                 rank == Len(last.datas[i].shape)
             IN /\ HoldsData(result, last.datas[i], last.funcscales[i])
                /\ result.kind = CASE rank < 2 -> "array" [] rank = 2 -> "matrix" [] OTHER -> "sparse"
                /\ result.kind = "sparse"
                   => /\ \A j \in 1..Len(result.entries) : result.entries[j].value # 0
                      /\ \A j \in 1..(Len(result.entries) - 1) :
                            LexLess(result.entries[j].index, result.entries[j + 1].index)

\* The call integrate(f, arguments=d): the keyword arguments hold d under the
\* single name "arguments".
Nested(d) == [k \in {"arguments"} |-> AMapping(d)]

\* C20: the mapping handed to the evaluation engine is the nested mapping
\* exactly when the keyword arguments have the single name "arguments" with a
\* mapping as value, and the keyword arguments themselves otherwise; so for
\* every flat mapping d of arrays the calls integrate(f, arguments=d) and
\* integrate(f, **d) hand the engine the same mapping d.
C20_ArgumentsNormalised ==
    last.op \in {"integrate", "eval_integrals"}
    => /\ \A d \in ArrayMappings :
             (last.arguments = Nested(d) \/ last.arguments = d) => last.engine = d
       /\ (\E m \in ArrayMappings : last.arguments = Nested(m))
             <=> (last.engine # last.arguments)

\* integrate has been called with the arguments nested under "arguments", the
\* nested mapping itself naming an array "arguments".
W20_NestedArguments ==
    /\ last.op = "integrate"
    /\ DOMAIN last.arguments = {"arguments"}
    /\ last.arguments["arguments"].type = "mapping"
    /\ DOMAIN last.engine = {"arguments", "lhs"}

\* C21: an entry point wrapped by single_or_multiple returns the result of
\* the function when it is given one function, and when it is given a
\* sequence a tuple of one result per function in the functions' order; the
\* body is handed the functions as a tuple.
X21_SingleOrMultiple ==
    last.op \in {"integrate", "integrate_sparse", "eval", "eval_sparse"}
    => LET n == Len(last.arg.funcs)
           results == IF last.arg.multiple THEN last.ret.val ELSE <<last.ret.val>>
       IN /\ last.funcs = last.arg.funcs
          /\ last.ret.err = "none"
          /\ last.arg.multiple => DOMAIN last.ret.val = 1..n
          /\ \A i \in 1..n :
                CASE last.op = "integrate" ->
                       HoldsData(results[i], last.datas[i], last.funcscales[i])
                  [] last.op = "integrate_sparse" -> results[i] = last.datas[i]
                  [] last.op = "eval" -> results[i] = eval(last.self, last.arg.funcs[i]).val
                  [] last.op = "eval_sparse" ->
                       results[i].sparse = eval(last.self, last.arg.funcs[i]).val

\* What a caller sees of a sample object: its attributes and its index.
Observed(o) ==
    [spaces |-> o.sample.spaces, ndims |-> o.sample.ndims, nelems |-> o.sample.nelems,
     npoints |-> o.sample.npoints,
     index |-> [e \in 1..o.sample.nelems |-> Object_getindex(o, e - 1)]]

\* C22: no call, whether it returns or raises, and no read of a cached
\* property changes the spaces, ndims, nelems, npoints or getindex results of
\* a sample that existed before it.
C22_OperandsUnchanged ==
    [][\A id \in 1..Len(objs) :
          /\ id <= Len(objs')
          /\ objs'[id].sample = objs[id].sample
          /\ Observed(objs'[id]) = Observed(objs[id])]_vars

\* An element subset exists next to its parent leaf, whose offsets a call has
\* read and stored.
W22_SubsetBesideParent ==
    \E a \in 1..Len(objs) : \E b \in 1..Len(objs) :
        /\ objs[b].sample.tag = "TakeElements"
        /\ objs[b].sample.parent = objs[a].sample
        /\ objs[a].memo.set

\* C23: for every variant, take_elements with an element index below 0 or
\* not below nelems raises a ValueError at the call; it returns no sample.
X23_TakeOutOfRangeIsValueError ==
    (/\ last.op = "take_elements"
     /\ \E k \in 1..Len(last.indices) :
            last.indices[k] < 0 \/ last.indices[k] >= last.self.nelems)
        => last.res.err = "ValueError"

\* The number of points of element e of a default-indexed leaf, and of the
\* parent element an element subset lists at e.
PointsOf(s, e) ==
    IF s.tag = "DefaultIndex" THEN s.points[e + 1].npoints
    ELSE Len(getindex(s.parent, s.indices[e + 1]).val)

\* s numbers its points element after element: element e has the ascending
\* range that starts where element e - 1 ends, the first one at 0, and
\* npoints is where the last one ends.
Cumulative(s) ==
    LET off[e \in 0..s.nelems] == IF e = 0 THEN 0 ELSE off[e - 1] + PointsOf(s, e - 1)
    IN /\ \A e \in 0..(s.nelems - 1) :
            /\ getindex(s, e).err = "none"
            /\ getindex(s, e).val = [k \in 1..(off[e + 1] - off[e]) |-> off[e] + k - 1]
       /\ s.npoints = off[s.nelems]

\* C24: a default-indexed leaf and an element subset number their points
\* cumulatively; the leaf of 2 elements of 3 points has getindex(0) = [0,1,2],
\* getindex(1) = [3,4,5], npoints = 6 and nelems = 2.
C24_CumulativeOffsets ==
    /\ x.tag \in {"DefaultIndex", "TakeElements"} => Cumulative(x)
    /\ LET three == [tri |-> <<>>, npoints |-> 3]
           s == _DefaultIndex("X", <<0, 1>>, <<three, three>>)
       IN /\ getindex(s, 0) = Ok(<<0, 1, 2>>)
          /\ getindex(s, 1) = Ok(<<3, 4, 5>>)
          /\ s.npoints = 6 /\ s.nelems = 2

\* A subset whose second element has points and does not start at 0.
W24_SubsetSecondElement ==
    /\ x.tag = "TakeElements" /\ x.nelems = 2
    /\ getindex(x, 1).val # <<>>
    /\ getindex(x, 1).val[1] > 0
    /\ last.op = "take_elements"

\* C25: a Sum of a and b numbers elements and points by concatenation: an
\* element below a.nelems has a's index and local triangulation, an element
\* ielem from a.nelems on has b's index of element ielem - a.nelems shifted by
\* a.npoints and b's local triangulation of that element.
C25_SumConcatenates ==
    x.tag = "Add" =>
        LET a == x.sample1
            b == x.sample2
        IN \A ielem \in 0..(x.nelems - 1) :
              IF ielem < a.nelems
              THEN /\ getindex(x, ielem) = getindex(a, ielem)
                   /\ get_element_tri(x, ielem) = get_element_tri(a, ielem)
              ELSE /\ getindex(b, ielem - a.nelems).err = "none"
                   /\ getindex(x, ielem).err = "none"
                   /\ getindex(x, ielem).val =
                        [k \in 1..Len(getindex(b, ielem - a.nelems).val) |->
                            getindex(b, ielem - a.nelems).val[k] + a.npoints]
                   /\ get_element_tri(x, ielem) = get_element_tri(b, ielem - a.nelems)

\* getindex was called on a Sum for an element of its second part, which has
\* points and a triangulation of its own.
W25_ElementOfSecondPart ==
    /\ last.op = "getindex" /\ last.self.tag = "Add"
    /\ last.ielem >= last.self.sample1.nelems /\ last.ielem < last.self.nelems
    /\ last.res.err = "none" /\ Len(last.res.val) = 2
    /\ last.self.sample1.npoints > 0
    /\ get_element_tri(last.self, last.ielem).err = "none"
    /\ get_element_tri(last.self, last.ielem).val # <<>>

\* C26: in a zipped sample, for every constituent i, every merged element m
\* and every position k in m, the point ilocals_i[offsets[m] + k] of element
\* ielems_i[m] of constituent i is point k of the zipped element m, and
\* offsets[m + 1] - offsets[m] = sizes[m].
C26_ZipRecordsConstituents ==
    x.tag = "Zip" =>
        \A m \in 0..(x.nelems - 1) :
            /\ x.offsets[m + 2] - x.offsets[m + 1] = x.sizes[m + 1]
            /\ getindex(x, m).err = "none"
            /\ Len(getindex(x, m).val) = x.sizes[m + 1]
            /\ \A i \in 1..Len(x.samples) : \A k \in 0..(x.sizes[m + 1] - 1) :
                  LET index == getindex(x.samples[i], x.ielems[i][m + 1])
                      ilocal == x.ilocals[i][x.offsets[m + 1] + k + 1]
                  IN /\ index.err = "none"
                     /\ 0 <= ilocal /\ ilocal < Len(index.val)
                     /\ index.val[ilocal + 1] = getindex(x, m).val[k + 1]

\* zip has returned a sample of two merged elements whose second one takes
\* its first point from a later position of the constituent's element than
\* its own.
W26_ZipOfReordered ==
    /\ last.op = "zip" /\ last.res.err = "none"
    /\ x.tag = "Zip" /\ x.nelems = 2 /\ Len(x.samples) = 2
    /\ \E i \in 1..2 : x.ilocals[i][x.offsets[2] + 1] > 0
    /\ \E k \in 1..(x.npoints - 1) : x.indices[k] > x.indices[k + 1]

\* The cumulative point counts of a default-indexed leaf: 0, then one entry
\* per element that adds the element's number of points.
CumulativeCounts(s) ==
    LET off[e \in 0..s.nelems] == IF e = 0 THEN 0 ELSE off[e - 1] + s.points[e].npoints
    IN [e \in 1..(s.nelems + 1) |-> off[e - 1]]

\* No thread is between the lookup and the store of the offsets of object id.
NoReader(id) == \A t \in 1..MaxThreads : threads[t].pc = "idle" \/ threads[t].id # id

\* What holds of the cached offsets in every state: nothing is computed
\* before the first read, what is stored and what a read returns is the
\* cumulative point counts, and reads that do not overlap compute it once.
OffsetsMemoised ==
    /\ \A id \in 1..Len(objs) :
          objs[id].sample.tag = "DefaultIndex" =>
              /\ (~objs[id].memo.set /\ NoReader(id)) => objs[id].count = 0
              /\ objs[id].memo.set =>
                    /\ objs[id].memo.val = CumulativeCounts(objs[id].sample)
                    /\ objs[id].count >= 1
              /\ ~objs[id].overlapped => objs[id].count <= 1
    /\ \A t \in 1..MaxThreads :
          threads[t].got # <<>> =>
              threads[t].got[1] = CumulativeCounts(objs[threads[t].id].sample)

\* C27: the cached offsets are computed lazily and idempotently.  Reads one
\* after the other compute them once and return the same value; two threads
\* that read them while nothing is stored both return the cumulative point
\* counts, which is what ends up stored; and a read changes no other
\* attribute of any sample.
C27_OffsetsComputedOnce ==
    /\ []OffsetsMemoised
    /\ [][threads' # threads =>
            /\ Len(objs') = Len(objs)
            /\ \A id \in 1..Len(objs) : objs'[id].sample = objs[id].sample]_vars

\* Two threads have read the offsets of a leaf of two elements at the same
\* time: both computed them, both returned, and the value is stored.
W27_TwoThreadsComputed ==
    \E id \in 1..Len(objs) :
        /\ objs[id].sample.tag = "DefaultIndex" /\ objs[id].sample.nelems = 2
        /\ objs[id].overlapped /\ objs[id].count = 2 /\ objs[id].memo.set
        /\ \A t \in 1..MaxThreads :
              threads[t].pc = "idle" /\ threads[t].id = id /\ threads[t].got # <<>>

\* C28: lowering a basis completes whatever axes the unaligned coordinates
\* retain.  If the coordinate axis, numbered len(points_shape), is not among
\* them it is added as the last one; if it is among them but not last the
\* axes are put in increasing order; the node returned is aligned to
\* (*points_shape, npoints).
X28_LowerBasisCompletes ==
    last.op = "lower" =>
        LET rank == Len(last.points_shape)
            retained == {last.where[i] : i \in DOMAIN last.where}
        IN /\ last.res.err = "none"
           /\ last.res.val.shape = Append(last.points_shape, last.self.npoints)
           /\ last.res.val.where[Len(last.res.val.where)] = rank
           /\ rank \notin retained => last.res.val.where = Append(last.where, rank)
           /\ rank \in retained =>
                 {last.res.val.where[i] : i \in DOMAIN last.res.val.where} = retained

\* The points of element e of a sample, each with its weight: of a leaf the
\* points of its points object, of a Sum the points of the part the element
\* belongs to, of a Product the pairs of points of the factors' elements with
\* the product of their weights, of a zipped sample the points of the
\* constituents' elements that share it with the weight of the first
\* constituent, of an element subset the points of the parent's element.
ElementPoints(s, e) ==
    IF ~(0 <= e /\ e < s.nelems) THEN <<>>
    ELSE CASE s.tag \in {"DefaultIndex", "CustomIndex"} ->
                [k \in 1..s.points[e + 1].npoints |->
                    LET c == [space |-> s.space, transform |-> s.transforms[e + 1],
                              point |-> k - 1, of |-> s.points[e + 1].npoints]
                    IN [w |-> CoordCode(c), pt |-> {c}]]
           [] s.tag = "Add" ->
                IF e < s.sample1.nelems THEN ElementPoints(s.sample1, e)
                ELSE ElementPoints(s.sample2, e - s.sample1.nelems)
           [] s.tag = "Mul" ->
                LET p1 == ElementPoints(s.sample1, e \div s.sample2.nelems)
                    p2 == ElementPoints(s.sample2, e % s.sample2.nelems)
                IN [k \in 1..(Len(p1) * Len(p2)) |->
                       LET a == p1[((k - 1) \div Len(p2)) + 1]
                           b == p2[((k - 1) % Len(p2)) + 1]
                       IN [w |-> a.w * b.w, pt |-> a.pt \cup b.pt]]
           [] s.tag = "Zip" ->
                [k \in 1..s.sizes[e + 1] |->
                    LET at(i) == ElementPoints(s.samples[i], s.ielems[i][e + 1])
                                     [s.ilocals[i][s.offsets[e + 1] + k] + 1]
                    IN [w |-> at(1).w, pt |-> UNION {at(i).pt : i \in 1..Len(s.samples)}]]
           [] s.tag = "TakeElements" -> ElementPoints(s.parent, s.indices[e + 1])
           [] OTHER -> <<>>

\* The sum over the elements e of s and the points k of e of weight(e, k)
\* times func at the point.
WeightedSum(s, func) ==
    LET term(p) == Times(func.shape, p.w, lower(func, p.pt).val)
        over(ps) == LET F[k \in 0..Len(ps)] ==
                            IF k = 0 THEN Zero(func.shape)
                            ELSE Plus(func.shape, F[k - 1], term(ps[k]))
                    IN F[Len(ps)]
        G[e \in 0..s.nelems] ==
            IF e = 0 THEN Zero(func.shape)
            ELSE Plus(func.shape, G[e - 1], over(ElementPoints(s, e - 1)))
    IN G[s.nelems]

\* C29: the integral of a function over a sample is the sum over the elements
\* and their points of the weight times the function at the point.  So the
\* integral over a Sum is the sum of the integrals over its parts, the nested
\* integral over a Product is the sum over the pairs of points with the
\* product of their weights, and the integral over the empty sample is the
\* zero of the integrand's shape.
X29_IntegralIsWeightedSum ==
    last.op = "integral" =>
        /\ last.res.err = "none"
        /\ last.res.val = WeightedSum(last.self, last.func)
        /\ last.self.tag = "Empty" => last.res.val = Zero(last.func.shape)
        /\ last.self.tag = "Add" =>
              last.res.val = Plus(last.func.shape,
                                  WeightedSum(last.self.sample1, last.func),
                                  WeightedSum(last.self.sample2, last.func))

\* C30: eval hands the evaluation engine the same flat mapping d of arrays
\* whether it is called as eval(f, **d) or as eval(f, arguments=d): a mapping
\* under the single name "arguments" is unwrapped before the evaluation.
X30_EvalArgumentsNormalised ==
    last.op = "eval"
    => \A d \in ArrayMappings :
          (last.arguments = Nested(d) \/ last.arguments = d) => last.engine = d

====
